---- MODULE Spec2Model ----
(***************************************************************************)
(* The recording session controller of the recording app: the              *)
(* useRecordingFlow hook, the useCountdown hook it builds on, and the      *)
(* parts of App.js that drive it (button row, auto-transition effect,      *)
(* "Start Over").  The browser is the environment: it grants or refuses    *)
(* device streams, fires the interval timers and delivers the              *)
(* MediaRecorder events.                                                   *)
(***************************************************************************)
EXTENDS Integers, Sequences, FiniteSets, TLC

\* ------------------------------------------------------------------ bounds
MaxStreams == 2        \* device streams granted in one run
MaxRecorders == 2      \* MediaRecorder objects constructed in one run
MaxCountdowns == 2     \* countdown intervals alive at the same time
MaxPending == 2        \* getUserMedia promises not yet settled at the same time
MaxUploads == 2        \* uploadRecording invocations in one run
MaxRetries == 3        \* the largest retries a caller of retryWithDelay passes
MaxThrows == 2         \* calls of onModeSelected that throw in one run
MaxClicks == 4         \* clicks on the mode buttons in one run
MaxStarts == 2         \* countdowns of RecordingApp under way at the same time
\* RECORDING_LIMITS.MAX_DURATION_SECONDS, scaled down from the configured 30:
\* nothing below depends on the value
MAX_DURATION_SECONDS == 3
\* CONFIG.MAX_RECORDING_TIME, scaled down from 15 minutes
MAX_RECORDING_TIME == 9
\* the length errorHistory is cut to (50 in errorHandler.js)
HISTORY_LIMIT == 3
\* handleError calls between two calls of clearHistory
MaxHandled == 5
\* live intervals of the recording timer effect a variant may pile up
MaxTickers == 2
ChunkSizes == {0, 1}   \* evt.data.size of a chunk

\* -------------------------------------------------------- program constants
COUNTDOWN_STEPS == <<"3", "2", "1", "BEGIN">>
SUPPORTED_FORMATS ==
  [video |-> <<"video/mp4;codecs=h264", "video/webm;codecs=vp8,opus">>,
   audio |-> <<"audio/mp4;codecs=aac", "audio/webm;codecs=opus">>]

NULL == "null"
Modes == {"audio", "video"}
HostDefault == "host-default"
\* recordedBlobUrl = null: no object URL, hence no blob behind it
NoBlob == [chunks |-> <<>>, type |-> NULL, by |-> 0]
\* no pause to remember, no countdown completed yet
NoMark == [elapsed |-> -1, chunks |-> <<>>]
NoUpload == [blob |-> NoBlob, captureMode |-> NULL, mimeType |-> NULL,
             stopped |-> FALSE, attempt |-> 0]
\* the states of RecordingApp
APP_STATES ==
  [LOADING |-> "loading", SESSION_ERROR |-> "session_error",
   MODE_SELECTION |-> "mode_selection", RECORDING_READY |-> "recording_ready",
   COUNTDOWN |-> "countdown", RECORDING |-> "recording", PAUSED |-> "paused",
   REVIEW |-> "review", UPLOADING |-> "uploading", SUCCESS |-> "success"]

\* no promise settled, no delay given, no call made
NoOutcome == [settled |-> FALSE, ok |-> FALSE, value |-> ""]
NoDelay == [num |-> 0, den |-> 1]
NoCall == [retries |-> -1, delay |-> NoDelay]
NoCountdown ==
  [ticks |-> 0, calls |-> 0, shown |-> <<>>, cancelled |-> FALSE,
   afterDone |-> FALSE]
\* a null failure, no classification made, no error created
NoFailure ==
  [present |-> FALSE, hasName |-> FALSE, name |-> "", hasMessage |-> FALSE,
   message |-> <<>>]
NoInfo == [type |-> NULL, recoverable |-> FALSE, retryable |-> FALSE]
NoError ==
  [type |-> NULL, message |-> "", timestamp |-> "", originalError |-> NoFailure]
NoArgs == [type |-> NULL, message |-> NULL, originalError |-> NoFailure]
\* what MediaRecorder.isTypeSupported accepts on the host of a run: the
\* fallback format of each mode
HostProfiles == {{SUPPORTED_FORMATS.video[2], SUPPORTED_FORMATS.audio[2]}}

\* tracks of the stream getUserMedia returns for a mode
TracksOf(mode) == IF mode = "video" THEN {"video", "audio"} ELSE {"audio"}

VARIABLES
  \* ---- useRecordingFlow state
  captureMode,        \* NULL, "audio" or "video"
  mediaStream,        \* 0 (null) or an index into streams
  mediaRecorder,      \* 0 (null) or an index into recorders
  recordedBlobUrl,    \* NoBlob or the blob the object URL stands for
  recordedChunks,     \* recordedChunksRef.current
  isRecording,
  isPaused,
  elapsedSeconds,
  actualMimeType,     \* NULL or a MIME string
  \* ---- useCountdown state
  countdownActive,
  countdownValue,     \* NULL or a step of COUNTDOWN_STEPS
  countdowns,         \* the setInterval timers startCountdown created, oldest first
  \* ---- App.js state
  submitStage,        \* the submit overlay is shown
  \* ---- the browser
  streams,            \* every MediaStream granted so far
  recorders,          \* every MediaRecorder constructed so far
  pendingGrants,      \* getUserMedia promises not yet settled, per mode
  hostSupported,      \* the MIME strings MediaRecorder.isTypeSupported accepts
  \* ---- history
  lastOp,             \* the last session transition a handler made
  pauseMark,          \* NoMark, or elapsedSeconds and the chunk buffer as they were
                      \* at the last pause, until the session moves on
  lastCompleted,      \* NoCountdown, or the countdown that completed last
  \* ---- error reporting
  hostFailure,        \* the value a host call threw or rejected with
  errorInfo,          \* NoInfo or what ErrorHandler.processError returned
  permissionError,    \* NoInfo or what initializeMedia's catch stored
  structuredError,    \* NoError or what createError returned last
  createArgs,         \* history: NoArgs or the arguments of that createError call
  \* ---- App.js submission
  uploadInProgress,
  showConfetti,       \* the confetti screen replaces the whole App
  uploadsInFlight,    \* uploadRecording promises not yet settled
  uploadCalls,        \* history: how often uploadRecording was invoked
  lastUpload,         \* history: NoUpload or the last invocation's arguments and
                      \* the session it was made in
  \* ---- one call of retryWithDelay
  retryPhase,         \* "idle", "awaiting" (fn's promise), "waiting" (the
                      \* timeout), "resolved" or "rejected"
  retriesLeft,        \* the parameter retries of the innermost call
  retryDelay,         \* the parameter delay of the innermost call
  retryResult,        \* NoOutcome or what the outermost promise settled with
  retryArgs,          \* history: the arguments of the outermost call
  fnLog,              \* history: how each invocation of fn settled, in order
  \* ---- RecordingModeSelector
  selectedMode,
  isLoading,
  selectTimeout,      \* NULL or the mode the pending 300 ms timeout will pass on
  clicks,             \* history: every click on a mode button, and whether
                      \* the handler ignored it
  modeCalls,          \* history: the arguments of the calls of onModeSelected
  selectThrows,       \* history: how many of those calls threw
  \* ---- RecordingApp
  appState,
  appError,           \* NULL or error.type
  loadPhase,          \* where loadSession stands: "start", "analytics", "fetch"
                      \* or "done"
  startAwaits,        \* calls of handleStartRecording at their await
  beginTimeouts,      \* timeouts pending that will set RECORDING
  visited,            \* history: the states appState has had
  loadResult,         \* history: NULL or how loadSession ended
  \* ---- RecordingInterface, once its recorder is set up
  recordingTime,
  timerRunning,       \* timerRef.current holds a live interval
  recorderState,      \* mediaRecorderRef.current.state
  stateProp,          \* the prop state the parent passes
  timeAtPause,        \* history: recordingTime at the last pause, or -1
  interfaceOp,        \* history: the last handler that acted
  closureTime,        \* recordingTime as the onstop handler's closure holds it
  doneDuration,       \* history: -1 or the duration onRecordingDone was given
  \* ---- one call of RecordingApp.handleStartRecording
  startCount,         \* the closure's count
  startInterval,      \* countdownInterval is live
  recordingSets,      \* history: how often its timeouts set RECORDING
  stateAtSet,         \* history: NULL or appState when the last of them fired
  \* ---- ErrorHandler.errorHistory
  errorHistory,       \* this.errorHistory
  handled,            \* history: every errorInfo handled since the last clearHistory
  \* ---- the elapsed-time tickers
  tickers,            \* live intervals set by the recording timer effect
  timerDeps,          \* [isRecording, isPaused] of the effect's last run
  intervalId,         \* the last run of the effect set an interval
  hookRecorder,       \* useRecording: "none" or mediaRecorderRef.current.state
  hookStream,         \* useRecording: streamRef.current is set
  hookPending,        \* useRecording: calls of startRecording at their await
  hookTimers,         \* useRecording: live intervals set by the hook
  timerRefLive,       \* useRecording: timerRef.current is one of them
  hookRecording,      \* useRecording: isRecording
  hookPaused,         \* useRecording: isPaused
  hookTime            \* useRecording: recordingTime

hookVars == <<captureMode, mediaStream, mediaRecorder, recordedBlobUrl,
              recordedChunks, isRecording, isPaused, elapsedSeconds,
              actualMimeType>>
countdownVars == <<countdownActive, countdownValue, countdowns>>
appVars == <<submitStage>>
hostVars == <<streams, recorders, pendingGrants, hostSupported>>
histVars == <<lastOp, pauseMark, lastCompleted>>
flowVars == <<hookVars, countdownVars, appVars, hostVars, histVars>>
errorVars == <<hostFailure, errorInfo, permissionError, structuredError,
               createArgs>>
submitVars == <<uploadInProgress, showConfetti, uploadsInFlight, uploadCalls,
                lastUpload>>
retryVars == <<retryPhase, retriesLeft, retryDelay, retryResult, retryArgs,
               fnLog>>
selectorVars == <<selectedMode, isLoading, selectTimeout, clicks, modeCalls,
                  selectThrows>>
recordingAppVars == <<appState, appError, loadPhase, startAwaits,
                      beginTimeouts, visited, loadResult>>
interfaceVars == <<recordingTime, timerRunning, recorderState, stateProp,
                   timeAtPause, interfaceOp, closureTime, doneDuration>>
startVars == <<startCount, startInterval, recordingSets, stateAtSet>>
historyVars == <<errorHistory, handled>>
tickerVars == <<tickers, timerDeps, intervalId, hookRecorder, hookStream,
                hookPending, hookTimers, timerRefLive, hookRecording,
                hookPaused, hookTime>>
viewVars == <<errorVars, retryVars, selectorVars, recordingAppVars,
              interfaceVars, startVars,
                  historyVars, tickerVars>>
\* what the handlers of the recording flow leave alone
otherVars == <<submitVars, viewVars>>
\* what error reporting leaves alone
notErrorVars == <<flowVars, submitVars, retryVars, selectorVars,
                  recordingAppVars, interfaceVars, startVars,
                  historyVars, tickerVars>>
\* what a call of retryWithDelay leaves alone
notRetryVars == <<flowVars, submitVars, errorVars, selectorVars,
                  recordingAppVars, interfaceVars, startVars,
                  historyVars, tickerVars>>
\* what RecordingModeSelector leaves alone
notSelectorVars == <<flowVars, submitVars, errorVars, retryVars,
                     recordingAppVars, interfaceVars, startVars,
                  historyVars, tickerVars>>
\* what RecordingInterface leaves alone
notInterfaceVars == <<flowVars, submitVars, errorVars, retryVars,
                      selectorVars, recordingAppVars, startVars,
                  historyVars, tickerVars>>
\* what RecordingApp leaves alone
notRecordingAppVars == <<flowVars, submitVars, errorVars, retryVars,
                         selectorVars, interfaceVars, startVars,
                  historyVars, tickerVars>>
\* what RecordingApp and one start request of it leave alone
notStartVars == <<flowVars, submitVars, errorVars, retryVars, selectorVars,
                  interfaceVars, historyVars,
                  tickerVars>>
\* what the history of ErrorHandler leaves alone
notHistoryVars == <<flowVars, submitVars, errorVars, retryVars,
                    selectorVars, recordingAppVars, interfaceVars,
                    startVars,
                  tickerVars>>
\* what the tickers leave alone, besides the recording flow
notTickerVars == <<submitVars, errorVars, retryVars, selectorVars,
                   recordingAppVars, interfaceVars, startVars, historyVars>>
vars == <<flowVars, submitVars, viewVars>>

\* ------------------------------------------------------------ pure helpers
\* the bytes of new Blob(chunks): each chunk contributes size bytes, in order
RECURSIVE BlobBytes(_)
BlobBytes(chunks) ==
  IF chunks = <<>> THEN <<>>
  ELSE (IF Head(chunks).size > 0
          THEN <<[rec |-> Head(chunks).rec, seq |-> Head(chunks).seq]>>
          ELSE <<>>) \o BlobBytes(Tail(chunks))

\* variant: the fallback format is probed first
SelectFormatFallbackFirst(mode, supported) ==
  IF mode = "video"
    THEN IF "video/webm;codecs=vp8,opus" \in supported
           THEN "video/webm;codecs=vp8,opus"
         ELSE IF "video/mp4;codecs=h264" \in supported THEN "video/mp4;codecs=h264"
         ELSE NULL
    ELSE IF "audio/webm;codecs=opus" \in supported THEN "audio/webm;codecs=opus"
         ELSE IF "audio/mp4;codecs=aac" \in supported THEN "audio/mp4;codecs=aac"
         ELSE NULL

\* the options beginRecording passes to the MediaRecorder constructor:
\* a MIME string, or NULL for {}
SelectFormat(mode, supported) ==
  IF mode = "video"
    THEN IF "video/mp4;codecs=h264" \in supported THEN "video/mp4;codecs=h264"
         ELSE IF "video/webm;codecs=vp8,opus" \in supported
                THEN "video/webm;codecs=vp8,opus"
         ELSE NULL
    ELSE IF "audio/mp4;codecs=aac" \in supported THEN "audio/mp4;codecs=aac"
         ELSE IF "audio/webm;codecs=opus" \in supported
                THEN "audio/webm;codecs=opus"
         ELSE NULL

\* recorder.mimeType of a recorder constructed with these options
RecorderMimeType(option) == IF option = NULL THEN HostDefault ELSE option

StreamLive(s) == s # 0 /\ streams[s].live # {}

InitSession ==
  /\ captureMode = NULL
  /\ mediaStream = 0
  /\ mediaRecorder = 0
  /\ recordedBlobUrl = NoBlob
  /\ recordedChunks = <<>>
  /\ isRecording = FALSE
  /\ isPaused = FALSE
  /\ elapsedSeconds = 0
  /\ actualMimeType = NULL
  /\ countdownActive = FALSE
  /\ countdownValue = NULL
  /\ countdowns = <<>>
  /\ submitStage = FALSE
  /\ streams = <<>>
  /\ recorders = <<>>
  /\ pendingGrants = [m \in Modes |-> 0]
  /\ lastOp = "init"
  /\ pauseMark = NoMark
  /\ lastCompleted = NoCountdown

\* nothing has failed yet
InitErrors ==
  /\ hostFailure = NoFailure
  /\ errorInfo = NoInfo
  /\ permissionError = NoInfo
  /\ structuredError = NoError
  /\ createArgs = NoArgs

InitSubmit ==
  /\ uploadInProgress = FALSE
  /\ showConfetti = FALSE
  /\ uploadsInFlight = 0
  /\ uploadCalls = 0
  /\ lastUpload = NoUpload

InitRetry ==
  /\ retryPhase = "idle"
  /\ retriesLeft = 0
  /\ retryDelay = NoDelay
  /\ retryResult = NoOutcome
  /\ retryArgs = NoCall
  /\ fnLog = <<>>

InitSelector ==
  /\ selectedMode = "video"
  /\ isLoading = FALSE
  /\ selectTimeout = NULL
  /\ clicks = <<>>
  /\ modeCalls = <<>>
  /\ selectThrows = 0

InitRecordingApp ==
  /\ appState = "loading"
  /\ appError = NULL
  /\ loadPhase = "start"
  /\ startAwaits = 0
  /\ beginTimeouts = 0
  /\ visited = {"loading"}
  /\ loadResult = NULL

InitInterface ==
  /\ recordingTime = 0
  /\ timerRunning = FALSE
  /\ recorderState = "inactive"
  /\ stateProp = APP_STATES.RECORDING_READY
  /\ timeAtPause = -1
  /\ interfaceOp = "mount"
  /\ closureTime = 0
  /\ doneDuration = -1

InitStart ==
  /\ startCount = 3
  /\ startInterval = FALSE
  /\ recordingSets = 0
  /\ stateAtSet = NULL

InitHistory ==
  /\ errorHistory = <<>>
  /\ handled = <<>>

InitTicker ==
  /\ tickers = 0
  /\ timerDeps = <<FALSE, FALSE>>
  /\ intervalId = FALSE
  /\ hookRecorder = "none"
  /\ hookStream = FALSE
  /\ hookPending = 0
  /\ hookTimers = 0
  /\ timerRefLive = FALSE
  /\ hookRecording = FALSE
  /\ hookPaused = FALSE
  /\ hookTime = 0

InitView ==
  /\ InitErrors /\ InitSubmit /\ InitRetry /\ InitSelector
  /\ InitRecordingApp /\ InitInterface /\ InitStart /\ InitHistory /\ InitTicker

Init == InitSession /\ InitView /\ hostSupported \in HostProfiles

\* ------------------------------------------------------- getUserMedia
PendingTotal == pendingGrants["audio"] + pendingGrants["video"]

\* handleVideoClick / handleAudioClick up to the await
RequestMedia(mode) ==
  /\ PendingTotal < MaxPending
  /\ pendingGrants' = [pendingGrants EXCEPT ![mode] = @ + 1]
  /\ UNCHANGED histVars
  /\ UNCHANGED <<hookVars, countdownVars, appVars, streams, recorders, hostSupported>>

\* the promise resolves: setMediaStream(stream); setCaptureMode(mode)
GrantSucceeds(mode) ==
  /\ pendingGrants[mode] > 0
  /\ Len(streams) < MaxStreams
  /\ pendingGrants' = [pendingGrants EXCEPT ![mode] = @ - 1]
  /\ streams' = Append(streams, [mode |-> mode, live |-> TracksOf(mode)])
  /\ mediaStream' = Len(streams) + 1
  /\ captureMode' = mode
  /\ UNCHANGED histVars
  /\ UNCHANGED <<mediaRecorder, recordedBlobUrl, recordedChunks, isRecording,
                 isPaused, elapsedSeconds, actualMimeType, countdownVars,
                 appVars, recorders, hostSupported>>

\* variant: the mode is stored before the device is asked for
GrantFailsKeepsMode(mode) ==
  /\ pendingGrants[mode] > 0
  /\ pendingGrants' = [pendingGrants EXCEPT ![mode] = @ - 1]
  /\ captureMode' = mode
  /\ lastOp' = "refused"
  /\ UNCHANGED <<pauseMark, lastCompleted>>
  /\ UNCHANGED <<mediaStream, mediaRecorder, recordedBlobUrl, recordedChunks,
                 isRecording, isPaused, elapsedSeconds, actualMimeType,
                 countdownVars, appVars, streams, recorders, hostSupported>>

\* the promise rejects: the catch block builds and logs a structured error
GrantFails(mode) ==
  /\ pendingGrants[mode] > 0
  /\ pendingGrants' = [pendingGrants EXCEPT ![mode] = @ - 1]
  /\ lastOp' = "refused"
  /\ UNCHANGED <<pauseMark, lastCompleted>>
  /\ UNCHANGED <<hookVars, countdownVars, appVars, streams, recorders, hostSupported>>

\* ------------------------------------------------------- useCountdown
Remove(seq, i) == SubSeq(seq, 1, i - 1) \o SubSeq(seq, i + 1, Len(seq))

\* variant: the interval is left running
ClearIntervalNot(cds, i) == cds

\* clearInterval(intervalId) inside the interval callback
ClearInterval(cds, i) == Remove(cds, i)

\* startCountdown(onComplete): the closure of onComplete is kept as the
\* values it captured from the render that created it
StartCountdown(kind, stream, mode, rec) ==
  /\ Len(countdowns) < MaxCountdowns
  /\ countdownActive' = TRUE
  /\ countdownValue' = COUNTDOWN_STEPS[1]
  /\ countdowns' = Append(countdowns,
       [kind |-> kind, index |-> 0, ticks |-> 0, calls |-> 0,
        shown |-> <<COUNTDOWN_STEPS[1]>>, cancelled |-> FALSE,
        afterDone |-> FALSE,
        stream |-> stream, mode |-> mode, rec |-> rec])

\* both intervals have the same 1000 ms period, so a later one never
\* overtakes an earlier one
MayTick(i) ==
  /\ i \in 1..Len(countdowns)
  /\ \A j \in 1..(i - 1) : countdowns[j].index >= countdowns[i].index + 1

\* interval callback, branch index < steps.length
CountdownStep(i) ==
  /\ UNCHANGED otherVars
  /\ MayTick(i)
  /\ LET c == countdowns[i]
         new == c.index + 1
     IN /\ new < Len(COUNTDOWN_STEPS)
        /\ countdownValue' = COUNTDOWN_STEPS[new + 1]
        /\ countdowns' = [countdowns EXCEPT ![i] =
             [c EXCEPT !.index = new, !.ticks = @ + 1,
                       !.shown = Append(@, COUNTDOWN_STEPS[new + 1])]]
  /\ UNCHANGED histVars
  /\ UNCHANGED <<hookVars, countdownActive, appVars, hostVars>>

\* interval callback, else branch, up to the call of onComplete
Completes(i) ==
  /\ MayTick(i)
  /\ countdowns[i].index + 1 >= Len(COUNTDOWN_STEPS)
  /\ countdowns' = ClearInterval(
       [countdowns EXCEPT ![i] = [@ EXCEPT !.index = @ + 1, !.ticks = @ + 1,
                                           !.calls = @ + 1]], i)
  /\ countdownActive' = FALSE
  /\ lastCompleted' = [ticks |-> countdowns[i].ticks + 1,
                       calls |-> countdowns[i].calls + 1,
                       shown |-> countdowns[i].shown,
                       cancelled |-> countdowns[i].cancelled,
                       afterDone |-> countdowns[i].afterDone]
  /\ UNCHANGED countdownValue

\* variant: the handle forgets setCountdownValue(null)
CancelKeepsValue(i) ==
  /\ UNCHANGED otherVars
  /\ i \in 1..Len(countdowns)
  /\ countdowns' = ClearInterval(
       [countdowns EXCEPT ![i] = [@ EXCEPT !.cancelled = TRUE]], i)
  /\ countdownActive' = FALSE
  /\ UNCHANGED countdownValue
  /\ lastOp' = "cancel"
  /\ UNCHANGED <<pauseMark, lastCompleted>>
  /\ UNCHANGED <<hookVars, appVars, hostVars>>

\* the handle startCountdown returns, called while its interval runs:
\* clearInterval(intervalId); setCountdownActive(false); setCountdownValue(null)
Cancel(i) ==
  /\ UNCHANGED otherVars
  /\ i \in 1..Len(countdowns)
  /\ countdowns' = ClearInterval(
       [countdowns EXCEPT ![i] = [@ EXCEPT !.cancelled = TRUE]], i)
  /\ countdownActive' = FALSE
  /\ countdownValue' = NULL
  /\ lastOp' = "cancel"
  /\ UNCHANGED <<pauseMark, lastCompleted>>
  /\ UNCHANGED <<hookVars, appVars, hostVars>>

\* ------------------------------------------------------- MediaRecorder
NewRecorder(stream, mime, state) ==
  [state |-> state, mimeType |-> mime, stream |-> stream,
   flush |-> "none", emitted |-> <<>>, stops |-> 0, stopsInactive |-> 0,
   blobs |-> 0]

\* recorder.stop()
StopRecorder(r) ==
  [r EXCEPT !.stops = @ + 1,
            !.stopsInactive = IF r.state = "inactive" THEN @ + 1 ELSE @,
            !.state = "inactive",
            !.flush = IF r.state = "inactive" THEN @ ELSE "pending"]

\* variant: handleDone stops whatever recorder it holds
ShouldStopAlways(r) == TRUE

\* variant: handleDone stops a recorder only while it records
ShouldStopRecordingOnly(r) == r.state = "recording"

\* handleDone: mediaRecorder && mediaRecorder.state !== 'inactive'
ShouldStop(r) == r.state # "inactive"

\* variant: the flags are set before the recorder is constructed
BeginRecordingFlagsFirst(ms, cm) ==
  \/ /\ ms = 0
     /\ UNCHANGED <<recordedChunks, recorders, actualMimeType, mediaRecorder,
                    isRecording, isPaused>>
  \/ /\ ms # 0
     /\ recordedChunks' = <<>>
     /\ LET mime == RecorderMimeType(SelectFormat(cm, hostSupported))
        IN \/ \* new MediaRecorder throws
              /\ isRecording' = TRUE
              /\ isPaused' = FALSE
              /\ UNCHANGED <<recorders, actualMimeType, mediaRecorder>>
           \/ \* recorder.start() throws: the stream has no live track
              /\ ~StreamLive(ms)
              /\ Len(recorders) < MaxRecorders
              /\ recorders' = Append(recorders, NewRecorder(ms, mime, "inactive"))
              /\ actualMimeType' = mime
              /\ UNCHANGED <<mediaRecorder, isRecording, isPaused>>
           \/ /\ Len(recorders) < MaxRecorders
              /\ recorders' = Append(recorders, NewRecorder(ms, mime, "recording"))
              /\ actualMimeType' = mime
              /\ mediaRecorder' = Len(recorders) + 1
              /\ isRecording' = TRUE
              /\ isPaused' = FALSE

\* beginRecording as called from the start countdown, with the mediaStream
\* and captureMode its closure captured
BeginRecording(ms, cm) ==
  \/ /\ ms = 0
     /\ UNCHANGED <<recordedChunks, recorders, actualMimeType, mediaRecorder,
                    isRecording, isPaused>>
  \/ /\ ms # 0
     /\ recordedChunks' = <<>>
     /\ LET mime == RecorderMimeType(SelectFormat(cm, hostSupported))
        IN \/ \* new MediaRecorder throws
              UNCHANGED <<recorders, actualMimeType, mediaRecorder,
                          isRecording, isPaused>>
           \/ \* recorder.start() throws: the stream has no live track
              /\ ~StreamLive(ms)
              /\ Len(recorders) < MaxRecorders
              /\ recorders' = Append(recorders, NewRecorder(ms, mime, "inactive"))
              /\ actualMimeType' = mime
              /\ UNCHANGED <<mediaRecorder, isRecording, isPaused>>
           \/ /\ Len(recorders) < MaxRecorders
              /\ recorders' = Append(recorders, NewRecorder(ms, mime, "recording"))
              /\ actualMimeType' = mime
              /\ mediaRecorder' = Len(recorders) + 1
              /\ isRecording' = TRUE
              /\ isPaused' = FALSE

\* the start countdown completes: setElapsedSeconds(0); beginRecording()
StartComplete(i) ==
  /\ Completes(i)
  /\ countdowns[i].kind = "start"
  /\ elapsedSeconds' = 0
  /\ BeginRecording(countdowns[i].stream, countdowns[i].mode)
  /\ lastOp' = IF countdowns[i].stream # 0 /\ recorders' = recorders
                 THEN "constructThrew" ELSE "startComplete"
  /\ pauseMark' = NoMark
  /\ UNCHANGED <<captureMode, mediaStream, recordedBlobUrl, appVars, streams,
                 pendingGrants, hostSupported>>

\* variant: the resume callback does not look at the recorder's state
ResumeCompleteUnguarded(i) ==
  /\ Completes(i)
  /\ countdowns[i].kind = "resume"
  /\ LET r == countdowns[i].rec
     IN IF r # 0
          THEN /\ recorders' = [recorders EXCEPT ![r].state = "recording"]
               /\ isRecording' = TRUE
          ELSE UNCHANGED <<recorders, isRecording>>
  /\ lastOp' = "resumeComplete"
  /\ UNCHANGED pauseMark
  /\ UNCHANGED <<captureMode, mediaStream, mediaRecorder, recordedBlobUrl,
                 recordedChunks, isPaused, elapsedSeconds, actualMimeType,
                 appVars, streams, pendingGrants, hostSupported>>

\* variant: the resume callback restarts the clock as the start callback does
ResumeCompleteRestarts(i) ==
  /\ Completes(i)
  /\ countdowns[i].kind = "resume"
  /\ LET r == countdowns[i].rec
     IN IF r # 0 /\ recorders[r].state = "paused"
          THEN /\ recorders' = [recorders EXCEPT ![r].state = "recording"]
               /\ isRecording' = TRUE
          ELSE UNCHANGED <<recorders, isRecording>>
  /\ elapsedSeconds' = 0
  /\ lastOp' = "resumeComplete"
  /\ UNCHANGED pauseMark
  /\ UNCHANGED <<captureMode, mediaStream, mediaRecorder, recordedBlobUrl,
                 recordedChunks, isPaused, actualMimeType,
                 appVars, streams, pendingGrants, hostSupported>>

\* the resume countdown completes
ResumeComplete(i) ==
  /\ Completes(i)
  /\ countdowns[i].kind = "resume"
  /\ LET r == countdowns[i].rec
     IN IF r # 0 /\ recorders[r].state = "paused"
          THEN /\ recorders' = [recorders EXCEPT ![r].state = "recording"]
               /\ isRecording' = TRUE
          ELSE UNCHANGED <<recorders, isRecording>>
  /\ lastOp' = "resumeComplete"
  /\ UNCHANGED pauseMark
  /\ UNCHANGED <<captureMode, mediaStream, mediaRecorder, recordedBlobUrl,
                 recordedChunks, isPaused, elapsedSeconds, actualMimeType,
                 appVars, streams, pendingGrants, hostSupported>>

\* ------------------------------------------------------- hook handlers
PendingStarts == Cardinality({i \in 1..Len(countdowns) : countdowns[i].kind = "start"})

\* handleStartRecording: the callback captures mediaStream and captureMode
HandleStartRecording ==
  /\ Len(recorders) + PendingStarts < MaxRecorders
  /\ StartCountdown("start", mediaStream, captureMode, 0)
  /\ lastOp' = "startRecording"
  /\ UNCHANGED <<pauseMark, lastCompleted>>
  /\ UNCHANGED <<hookVars, appVars, hostVars>>

HandlePause ==
  /\ IF mediaRecorder # 0 /\ recorders[mediaRecorder].state = "recording"
       THEN /\ recorders' = [recorders EXCEPT ![mediaRecorder].state = "paused"]
            /\ isRecording' = FALSE
            /\ isPaused' = TRUE
            /\ pauseMark' = [elapsed |-> elapsedSeconds, chunks |-> recordedChunks]
       ELSE UNCHANGED <<recorders, isRecording, isPaused, pauseMark>>
  /\ lastOp' = "pause"
  /\ UNCHANGED lastCompleted
  /\ UNCHANGED <<captureMode, mediaStream, mediaRecorder, recordedBlobUrl,
                 recordedChunks, elapsedSeconds, actualMimeType, countdownVars,
                 appVars, streams, pendingGrants, hostSupported>>

\* handleResume: the callback captures mediaRecorder
HandleResume ==
  /\ isPaused' = FALSE
  /\ StartCountdown("resume", 0, NULL, mediaRecorder)
  /\ lastOp' = "resume"
  /\ UNCHANGED <<pauseMark, lastCompleted>>
  /\ UNCHANGED <<captureMode, mediaStream, mediaRecorder, recordedBlobUrl,
                 recordedChunks, isRecording, elapsedSeconds, actualMimeType,
                 appVars, hostVars>>

\* the body of handleDone
DoneEffect ==
  /\ recorders' = IF mediaRecorder # 0 /\ ShouldStop(recorders[mediaRecorder])
                    THEN [recorders EXCEPT ![mediaRecorder] = StopRecorder(@)]
                    ELSE recorders
  /\ streams' = IF mediaStream # 0
                  THEN [streams EXCEPT ![mediaStream].live = {}]
                  ELSE streams
  /\ mediaStream' = 0
  /\ mediaRecorder' = 0
  /\ isRecording' = FALSE
  /\ isPaused' = FALSE
  \* history: the countdowns in progress have seen a handleDone
  /\ countdowns' = [k \in 1..Len(countdowns) |->
                      [countdowns[k] EXCEPT !.afterDone = TRUE]]

\* variant: the updater without the cap
TickValueNoCap(prev) == prev + 1

\* the updater passed to setElapsedSeconds by the recording timer
TickValue(prev) ==
  IF prev >= MAX_DURATION_SECONDS THEN MAX_DURATION_SECONDS ELSE prev + 1

\* variant: the interval is also kept while the session is paused
TickAlsoPaused ==
  /\ isRecording \/ isPaused
  /\ elapsedSeconds' = TickValue(elapsedSeconds)
  /\ pauseMark' = NoMark
  /\ UNCHANGED <<lastOp, lastCompleted>>
  /\ UNCHANGED <<captureMode, mediaStream, mediaRecorder, recordedBlobUrl,
                 recordedChunks, isRecording, isPaused, actualMimeType,
                 countdownVars, appVars, hostVars>>

\* the recording timer effect keeps an interval exactly while
\* isRecording && !isPaused
Tick ==
  /\ isRecording /\ ~isPaused
  /\ elapsedSeconds' = TickValue(elapsedSeconds)
  /\ pauseMark' = NoMark
  /\ UNCHANGED <<lastOp, lastCompleted>>
  /\ UNCHANGED <<captureMode, mediaStream, mediaRecorder, recordedBlobUrl,
                 recordedChunks, isRecording, isPaused, actualMimeType,
                 countdownVars, appVars, hostVars>>

\* ------------------------------------------------------- recorder events
\* recorder.ondataavailable
OnDataAvailable(chunks, chunk) ==
  IF chunk.size > 0 THEN Append(chunks, chunk) ELSE chunks

\* the Blob of a dataavailable event of recorder r; the non-empty ones are
\* numbered in the order the recorder emits them
NewChunk(r, size) ==
  [rec |-> r, size |-> size,
   seq |-> IF size > 0 THEN Len(recorders[r].emitted) + 1 ELSE 0]

\* history: the non-empty chunks a recorder has emitted, in emission order
Emitted(history, chunk) ==
  IF chunk.size > 0 THEN Append(history, chunk) ELSE history

\* recorder.onstop: new Blob(recordedChunksRef.current, {type: recorder.mimeType})
OnStopBlob(chunks, r) ==
  [chunks |-> chunks, type |-> recorders[r].mimeType, by |-> r]

\* the task the browser queues when the recorder stops: it fires
\* dataavailable with the data gathered so far, then stop.  recorder.start()
\* is called without a timeslice, so this is the only dataavailable event of
\* a recorder
RecStop(r) ==
  /\ r \in 1..Len(recorders)
  /\ recorders[r].flush = "pending"
  /\ \E size \in ChunkSizes :
       LET chunk == NewChunk(r, size)
       IN /\ recordedChunks' = OnDataAvailable(recordedChunks, chunk)
          /\ recordedBlobUrl' = OnStopBlob(recordedChunks', r)
          /\ recorders' = [recorders EXCEPT ![r].emitted = Emitted(@, chunk),
                                            ![r].flush = "done",
                                            ![r].blobs = @ + 1]
  /\ UNCHANGED histVars
  /\ UNCHANGED <<captureMode, mediaStream, mediaRecorder, isRecording,
                 isPaused, elapsedSeconds, actualMimeType, countdownVars,
                 appVars, streams, pendingGrants, hostSupported>>

\* every track of the recorder's stream has ended: the browser stops the
\* recorder by itself
TracksEnded(r) ==
  /\ r \in 1..Len(recorders)
  /\ recorders[r].state # "inactive"
  /\ streams[recorders[r].stream].live = {}
  /\ recorders' = [recorders EXCEPT ![r].state = "inactive", ![r].flush = "pending"]
  /\ UNCHANGED histVars
  /\ UNCHANGED <<hookVars, countdownVars, appVars, streams, pendingGrants,
                 hostSupported>>

\* ------------------------------------------------------- App.js
\* variant: the effect compares with > instead of >=
AutoTransitionDueStrict ==
  elapsedSeconds > MAX_DURATION_SECONDS /\ isRecording /\ ~isPaused

\* the auto-transition effect's condition
AutoTransitionDue ==
  elapsedSeconds >= MAX_DURATION_SECONDS /\ isRecording /\ ~isPaused

\* which buttons renderBottomRow renders
BottomRow ==
  \* the confetti short-circuit returns before anything of the App is rendered
  IF showConfetti THEN "none"
  ELSE IF mediaStream = 0 /\ captureMode = NULL /\ ~submitStage THEN "mode"
  ELSE IF ~isRecording /\ ~isPaused /\ ~submitStage /\ mediaStream # 0 THEN "start"
  ELSE IF isRecording /\ ~isPaused /\ ~submitStage THEN "pause"
  ELSE IF isPaused /\ ~submitStage THEN "resumeDone"
  ELSE "none"

\* React runs the effects of a committed render before it handles the next
\* event, so no handler that changes the session runs while the
\* auto-transition is due
Settled == ~AutoTransitionDue

\* the browser has no task queued for a recorder: none waits for its stop
\* events, none is live on a stream whose tracks have all ended
HostIdle ==
  \A r \in 1..Len(recorders) :
    /\ recorders[r].flush # "pending"
    /\ recorders[r].state # "inactive" => streams[recorders[r].stream].live # {}

\* the tasks the browser queues for a stopped recorder or an ended stream
\* follow the call within milliseconds: they run before the next click and
\* before the next callback of a 1000 ms interval
Quiet == Settled /\ HostIdle

\* a mode button is activated; in Spec the buttons are not activated again
\* while the browser's permission prompt is open
ClickMode(mode) ==
  Quiet /\ BottomRow = "mode" /\ PendingTotal = 0 /\ RequestMedia(mode)
    /\ UNCHANGED otherVars

\* a mode button is activated while an earlier request is still pending:
\* the buttons stay rendered until a stream is stored
ClickModeAgain(mode) ==
  Quiet /\ BottomRow = "mode" /\ PendingTotal > 0 /\ RequestMedia(mode)
    /\ UNCHANGED otherVars
MediaGranted(mode) == Quiet /\ GrantSucceeds(mode) /\ UNCHANGED otherVars
MediaRefused(mode) == Quiet /\ GrantFails(mode) /\ UNCHANGED otherVars
ClickStart == Quiet /\ BottomRow = "start" /\ HandleStartRecording /\ UNCHANGED otherVars
ClickPause == Quiet /\ BottomRow = "pause" /\ HandlePause /\ UNCHANGED otherVars
ClickResume == Quiet /\ BottomRow = "resumeDone" /\ HandleResume /\ UNCHANGED otherVars

\* handleDoneAndSubmitStage
HandleDoneAndSubmitStage ==
  /\ DoneEffect
  /\ submitStage' = TRUE
  /\ UNCHANGED <<captureMode, recordedBlobUrl, recordedChunks, elapsedSeconds,
                 actualMimeType, countdownActive, countdownValue,
                 pendingGrants, hostSupported>>

ClickDone ==
  /\ UNCHANGED otherVars
  /\ Quiet /\ BottomRow = "resumeDone"
  /\ HandleDoneAndSubmitStage
  /\ lastOp' = "done"
  /\ pauseMark' = NoMark
  /\ UNCHANGED lastCompleted

\* the auto-transition effect
AutoTransition ==
  /\ UNCHANGED otherVars
  /\ AutoTransitionDue
  /\ HandleDoneAndSubmitStage
  /\ lastOp' = "auto"
  /\ pauseMark' = NoMark
  /\ UNCHANGED lastCompleted

\* handleStartOverYes: handleDone(); ...; setCaptureMode(null).  The confirm
\* overlay that calls it is opened from the submit overlay only.
StartOverYes ==
  /\ UNCHANGED viewVars
  /\ Quiet /\ submitStage /\ ~showConfetti
  /\ uploadInProgress' = FALSE
  /\ showConfetti' = FALSE
  /\ UNCHANGED <<uploadsInFlight, uploadCalls, lastUpload>>
  /\ DoneEffect
  /\ submitStage' = FALSE
  /\ captureMode' = NULL
  /\ lastOp' = "reset"
  /\ pauseMark' = NoMark
  /\ UNCHANGED lastCompleted
  /\ UNCHANGED <<recordedBlobUrl, recordedChunks, elapsedSeconds,
                 actualMimeType, countdownActive, countdownValue,
                 pendingGrants, hostSupported>>

\* the interval of the recording timer is cleared by the cleanup of its own
\* effect, not by the auto-transition: it may fire while that one is due
TimerTick == HostIdle /\ Tick /\ UNCHANGED otherVars
CountdownTick(i) == Quiet /\ CountdownStep(i) /\ UNCHANGED otherVars
CountdownStartDone(i) == Quiet /\ StartComplete(i) /\ UNCHANGED otherVars
CountdownResumeDone(i) == Quiet /\ ResumeComplete(i) /\ UNCHANGED otherVars
OnStop(r) == Settled /\ RecStop(r) /\ UNCHANGED otherVars
StreamEnded(r) == Settled /\ TracksEnded(r) /\ UNCHANGED otherVars

Next ==
  \/ \E m \in Modes : ClickMode(m)
  \/ \E m \in Modes : MediaGranted(m)
  \/ \E m \in Modes : MediaRefused(m)
  \/ ClickStart
  \/ ClickPause
  \/ ClickResume
  \/ ClickDone
  \/ AutoTransition
  \/ StartOverYes
  \/ TimerTick
  \/ \E i \in 1..MaxCountdowns : CountdownTick(i)
  \/ \E i \in 1..MaxCountdowns : CountdownStartDone(i)
  \/ \E i \in 1..MaxCountdowns : CountdownResumeDone(i)
  \/ \E r \in 1..MaxRecorders : OnStop(r)
  \/ \E r \in 1..MaxRecorders : StreamEnded(r)

Spec == Init /\ [][Next]_vars

\* the app with mode buttons that can be activated at any time they are shown
NextGrants ==
  \/ Next
  \/ \E m \in Modes : ClickModeAgain(m)

SpecGrants == Init /\ [][NextGrants]_vars

\* ------------------------------------- the hook's handlers called directly
\* handlePause and handleResume are returned by the hook: a caller may invoke
\* them whatever the bottom row shows; here it does so while no countdown
\* runs
CallPause ==
  /\ Quiet /\ BottomRow # "pause" /\ countdowns = <<>>
  /\ HandlePause /\ UNCHANGED otherVars
CallResume ==
  /\ Quiet /\ BottomRow # "resumeDone" /\ countdowns = <<>>
  /\ HandleResume /\ UNCHANGED otherVars

NextHook ==
  \/ Next
  \/ CallPause
  \/ CallResume

SpecHook == Init /\ [][NextHook]_vars

\* ------------------------------------- release calls that throw
\* handleDone on a host whose recorder.stop() or track.stop() throws: the
\* handler has no try, so the exception ends it at the call that threw
DoneThrows ==
  \/ \* mediaRecorder.stop() throws
     /\ mediaRecorder # 0 /\ ShouldStop(recorders[mediaRecorder])
     /\ UNCHANGED <<recorders, streams>>
  \/ \* track.stop() throws for t; the tracks forEach visited before are stopped
     /\ mediaStream # 0
     /\ recorders' = IF mediaRecorder # 0 /\ ShouldStop(recorders[mediaRecorder])
                       THEN [recorders EXCEPT ![mediaRecorder] = StopRecorder(@)]
                       ELSE recorders
     /\ \E t \in TracksOf(streams[mediaStream].mode) :
          \E before \in SUBSET (TracksOf(streams[mediaStream].mode) \ {t}) :
            streams' = [streams EXCEPT ![mediaStream].live = @ \ before]

\* the Done button on such a host: setSubmitStage(true) is not reached
ClickDoneThrows ==
  /\ UNCHANGED otherVars
  /\ Quiet /\ BottomRow = "resumeDone"
  /\ DoneThrows
  /\ lastOp' = "doneThrew"
  /\ UNCHANGED <<pauseMark, lastCompleted>>
  /\ UNCHANGED <<captureMode, mediaStream, mediaRecorder, recordedBlobUrl,
                 recordedChunks, isRecording, isPaused, elapsedSeconds,
                 actualMimeType, countdownVars, appVars, pendingGrants,
                 hostSupported>>

\* handleStartOverYes on such a host: nothing after handleDone() is reached
StartOverYesThrows ==
  /\ UNCHANGED otherVars
  /\ Quiet /\ submitStage
  /\ DoneThrows
  /\ lastOp' = "resetThrew"
  /\ UNCHANGED <<pauseMark, lastCompleted>>
  /\ UNCHANGED <<captureMode, mediaStream, mediaRecorder, recordedBlobUrl,
                 recordedChunks, isRecording, isPaused, elapsedSeconds,
                 actualMimeType, countdownVars, appVars, pendingGrants,
                 hostSupported>>

NextThrows ==
  \/ Next
  \/ ClickDoneThrows
  \/ StartOverYesThrows

SpecThrows == Init /\ [][NextThrows]_vars

\* ------------------------------------------------------- submission
\* SessionState = Stopped as the hook's state shows it
Stopped == ~isRecording /\ ~isPaused /\ mediaRecorder = 0 /\ mediaStream = 0

\* handleSubmit up to the call of uploadRecording: the object URL is local, so
\* its fetch settles before the next event
handleSubmit ==
  IF recordedBlobUrl = NoBlob
    THEN UNCHANGED submitVars
    ELSE /\ uploadCalls < MaxUploads
         /\ uploadInProgress' = TRUE
         /\ uploadsInFlight' = uploadsInFlight + 1
         /\ uploadCalls' = uploadCalls + 1
         /\ lastUpload' = [blob |-> recordedBlobUrl,
                           captureMode |-> captureMode,
                           mimeType |-> actualMimeType,
                           stopped |-> Stopped,
                           \* history: the recorders constructed so far
                           attempt |-> Len(recorders)]
         /\ UNCHANGED showConfetti

\* the Submit button of the submit overlay; nothing disables it while an
\* upload runs. The overlay is rendered with the commit of submitStage, which
\* precedes the recorder's stop event: the handler's guard covers that window
ClickSubmit ==
  /\ Settled /\ submitStage /\ ~showConfetti
  /\ handleSubmit
  /\ lastOp' = IF recordedBlobUrl = NoBlob THEN "submitIgnored" ELSE "submitted"
  /\ UNCHANGED <<hookVars, countdownVars, appVars, hostVars, pauseMark,
                 lastCompleted, viewVars>>

\* uploadRecording resolves: the rest of handleSubmit's try block
UploadResolves ==
  /\ uploadsInFlight > 0
  /\ uploadsInFlight' = uploadsInFlight - 1
  /\ uploadInProgress' = FALSE
  /\ showConfetti' = TRUE
  /\ UNCHANGED <<uploadCalls, lastUpload, flowVars, viewVars>>

\* uploadRecording rejects: handleSubmit's catch block
UploadRejects ==
  /\ uploadsInFlight > 0
  /\ uploadsInFlight' = uploadsInFlight - 1
  /\ uploadInProgress' = FALSE
  /\ UNCHANGED <<showConfetti, uploadCalls, lastUpload, flowVars, viewVars>>

NextSubmit ==
  \/ Next
  \/ ClickSubmit
  \/ UploadResolves
  \/ UploadRejects

SpecSubmit == Init /\ [][NextSubmit]_vars

\* ------------------------------------------------------- retryWithDelay
\* what fn's promise can settle with
FnValues == {"success", "other"}
FnErrors == {"fail 1", "fail 2", "always fails"}
\* the delays callers pass, in ms
RetryDelays == {10, 100, 1000}

\* delay * 1.5, kept exact as a fraction
Backoff(delay) == [num |-> delay.num * 3, den |-> delay.den * 2]

\* the catch block: whether the call is repeated, and with which arguments
retryCatchOnceMore(retries, delay) ==
  IF retries >= 0
    THEN [again |-> TRUE, retries |-> retries - 1, delay |-> Backoff(delay)]
    ELSE [again |-> FALSE, retries |-> retries, delay |-> delay]

retryCatch(retries, delay) ==
  IF retries > 0
    THEN [again |-> TRUE, retries |-> retries - 1, delay |-> Backoff(delay)]
    ELSE [again |-> FALSE, retries |-> retries, delay |-> delay]

\* retryWithDelay(fn, retries, delay) is called: fn is invoked at once
CallRetry(retries, delay) ==
  /\ retryPhase = "idle"
  /\ retryPhase' = "awaiting"
  /\ retriesLeft' = retries
  /\ retryDelay' = [num |-> delay, den |-> 1]
  /\ retryArgs' = [retries |-> retries, delay |-> [num |-> delay, den |-> 1]]
  /\ UNCHANGED <<retryResult, fnLog, notRetryVars>>

\* fn's promise fulfils: every pending call returns the value
FnResolves(value) ==
  /\ retryPhase = "awaiting"
  /\ fnLog' = Append(fnLog, [settled |-> TRUE, ok |-> TRUE, value |-> value])
  /\ retryPhase' = "resolved"
  /\ retryResult' = [settled |-> TRUE, ok |-> TRUE, value |-> value]
  /\ UNCHANGED <<retriesLeft, retryDelay, retryArgs, notRetryVars>>

\* fn throws or its promise rejects: the catch block
FnRejects(error) ==
  /\ retryPhase = "awaiting"
  /\ fnLog' = Append(fnLog, [settled |-> TRUE, ok |-> FALSE, value |-> error])
  /\ LET c == retryCatch(retriesLeft, retryDelay) IN
       IF c.again
         THEN /\ retryPhase' = "waiting"
              /\ UNCHANGED retryResult
         ELSE /\ retryPhase' = "rejected"
              /\ retryResult' = [settled |-> TRUE, ok |-> FALSE, value |-> error]
  /\ UNCHANGED <<retriesLeft, retryDelay, retryArgs, notRetryVars>>

\* the timeout fires: the recursive call, which invokes fn again
RetryTimeout ==
  /\ retryPhase = "waiting"
  /\ LET c == retryCatch(retriesLeft, retryDelay) IN
       /\ retriesLeft' = c.retries
       /\ retryDelay' = c.delay
  /\ retryPhase' = "awaiting"
  /\ UNCHANGED <<retryResult, retryArgs, fnLog, notRetryVars>>

NextRetry ==
  \/ \E retries \in 0..MaxRetries, delay \in RetryDelays : CallRetry(retries, delay)
  \/ \E value \in FnValues : FnResolves(value)
  \/ \E error \in FnErrors : FnRejects(error)
  \/ RetryTimeout

SpecRetry == Init /\ [][NextRetry]_vars

\* the timeout fires and fn's promise settles
SpecRetryFair == SpecRetry /\ WF_vars(NextRetry)

\* ------------------------------------------------- RecordingModeSelector
\* handleModeSelect up to the await; a disabled button dispatches no click,
\* and the handler returns at once while isLoading
handleModeSelectUntilCalled(mode) ==
  IF isLoading /\ selectTimeout # NULL
    THEN /\ clicks' = Append(clicks, [mode |-> mode, ignored |-> TRUE])
         /\ UNCHANGED <<selectedMode, isLoading, selectTimeout, modeCalls,
                        selectThrows>>
    ELSE /\ selectedMode' = mode
         /\ isLoading' = TRUE
         /\ selectTimeout' = mode
         /\ clicks' = Append(clicks, [mode |-> mode, ignored |-> FALSE])
         /\ UNCHANGED <<modeCalls, selectThrows>>

handleModeSelect(mode) ==
  IF isLoading
    THEN /\ clicks' = Append(clicks, [mode |-> mode, ignored |-> TRUE])
         /\ UNCHANGED <<selectedMode, isLoading, selectTimeout, modeCalls,
                        selectThrows>>
    ELSE /\ selectedMode' = mode
         /\ isLoading' = TRUE
         /\ selectTimeout' = mode
         /\ clicks' = Append(clicks, [mode |-> mode, ignored |-> FALSE])
         /\ UNCHANGED <<modeCalls, selectThrows>>

\* a click on the Audio or the Video button
ClickModeButton(mode) ==
  /\ Len(clicks) < MaxClicks
  /\ handleModeSelect(mode)
  /\ UNCHANGED notSelectorVars

\* the timeout fires and onModeSelected(mode) returns
ModeSelectedReturns ==
  /\ selectTimeout # NULL
  /\ modeCalls' = Append(modeCalls, selectTimeout)
  /\ selectTimeout' = NULL
  /\ UNCHANGED <<selectedMode, isLoading, clicks, selectThrows,
                 notSelectorVars>>

\* the timeout fires and onModeSelected(mode) throws: the catch block
ModeSelectedThrows ==
  /\ selectTimeout # NULL
  /\ selectThrows < MaxThrows
  /\ modeCalls' = Append(modeCalls, selectTimeout)
  /\ selectTimeout' = NULL
  /\ selectThrows' = selectThrows + 1
  /\ isLoading' = FALSE
  /\ UNCHANGED <<selectedMode, clicks, notSelectorVars>>

NextSelector ==
  \/ \E mode \in Modes : ClickModeButton(mode)
  \/ ModeSelectedReturns
  \/ ModeSelectedThrows

SpecSelector == Init /\ [][NextSelector]_vars

\* ------------------------------------------------------- RecordingApp
\* the states in which renderCurrentState mounts RecordingInterface and
\* SubmitOverlay
InterfaceStates ==
  {APP_STATES.RECORDING_READY, APP_STATES.RECORDING, APP_STATES.PAUSED}
OverlayStates == {APP_STATES.REVIEW, APP_STATES.UPLOADING}

\* what getRecordingSession can settle with: a rejection, nothing at all, or
\* a session with a status
SessionStatuses == {"active", "removed", "expired", "completed", "error"}
Fetches ==
  {[rejected |-> TRUE, present |-> FALSE, status |-> ""],
   [rejected |-> FALSE, present |-> FALSE, status |-> ""]}
  \cup {[rejected |-> FALSE, present |-> TRUE, status |-> st] :
          st \in SessionStatuses}

\* loadSession after the await of getRecordingSession
loadSessionAnyStatus(fetch) ==
  IF fetch.rejected \/ ~fetch.present
    THEN [appState |-> APP_STATES.SESSION_ERROR, error |-> "network_error",
          result |-> "fetchFailed"]
    ELSE [appState |-> APP_STATES.MODE_SELECTION, error |-> NULL,
          result |-> fetch.status]

loadSessionFetched(fetch) ==
  IF fetch.rejected \/ ~fetch.present
    THEN [appState |-> APP_STATES.SESSION_ERROR, error |-> "network_error",
          result |-> "fetchFailed"]
    ELSE IF fetch.status # "active"
      THEN [appState |-> APP_STATES.SESSION_ERROR, error |-> fetch.status,
            result |-> fetch.status]
      ELSE [appState |-> APP_STATES.MODE_SELECTION, error |-> NULL,
            result |-> "active"]

SetAppState(state) ==
  /\ appState' = state
  /\ visited' = visited \cup {state}

\* the mount effect: loadSession up to its first await
LoadSession(hasSessionId) ==
  /\ loadPhase = "start"
  /\ IF hasSessionId
       THEN /\ loadPhase' = "analytics"
            /\ UNCHANGED <<appState, visited, appError, loadResult>>
       ELSE /\ loadPhase' = "done"
            /\ SetAppState(APP_STATES.SESSION_ERROR)
            /\ appError' = "invalid_url"
            /\ loadResult' = "missingId"
  /\ UNCHANGED <<startAwaits, beginTimeouts, notRecordingAppVars>>

\* recordAnalyticsEvent(sessionId, 'session_start') settles
SessionStartLogged(ok) ==
  /\ loadPhase = "analytics"
  /\ IF ok
       THEN /\ loadPhase' = "fetch"
            /\ UNCHANGED <<appState, visited, appError, loadResult>>
       ELSE /\ loadPhase' = "done"
            /\ SetAppState(APP_STATES.SESSION_ERROR)
            /\ appError' = "network_error"
            /\ loadResult' = "analyticsFailed"
  /\ UNCHANGED <<startAwaits, beginTimeouts, notRecordingAppVars>>

\* getRecordingSession settles
SessionFetched(fetch) ==
  /\ loadPhase = "fetch"
  /\ loadPhase' = "done"
  /\ LET r == loadSessionFetched(fetch) IN
       /\ SetAppState(r.appState)
       /\ appError' = r.error
       /\ loadResult' = r.result
  /\ UNCHANGED <<startAwaits, beginTimeouts, notRecordingAppVars>>

\* the handlers that only set appState: the states of the child that calls
\* them, whether the call follows an event of the mounted child or the end of
\* something the child started (a recorder's stop, an upload), and the state
\* they set
AppHandlers ==
  [handleModeSelected |->
     [from |-> {APP_STATES.MODE_SELECTION}, late |-> FALSE,
      to |-> APP_STATES.RECORDING_READY, error |-> NULL],
   handlePauseRecording |->
     [from |-> InterfaceStates, late |-> FALSE,
      to |-> APP_STATES.PAUSED, error |-> NULL],
   handleResumeRecording |->
     [from |-> InterfaceStates, late |-> FALSE,
      to |-> APP_STATES.RECORDING, error |-> NULL],
   handleRecordingDone |->
     [from |-> InterfaceStates, late |-> TRUE,
      to |-> APP_STATES.REVIEW, error |-> NULL],
   handleStartOver |->
     [from |-> OverlayStates, late |-> FALSE,
      to |-> APP_STATES.RECORDING_READY, error |-> NULL],
   handleSubmitRecording |->
     [from |-> {APP_STATES.REVIEW}, late |-> FALSE,
      to |-> APP_STATES.UPLOADING, error |-> NULL],
   handleUploadSuccess |->
     [from |-> {APP_STATES.UPLOADING}, late |-> TRUE,
      to |-> APP_STATES.SUCCESS, error |-> NULL],
   handleUploadError |->
     [from |-> {APP_STATES.UPLOADING}, late |-> TRUE,
      to |-> APP_STATES.REVIEW, error |-> "upload_error"]]

\* a child calls one of those handlers
ChildCalls(name) ==
  LET h == AppHandlers[name] IN
  /\ IF h.late THEN h.from \cap visited # {} ELSE appState \in h.from
  /\ SetAppState(h.to)
  /\ appError' = IF h.error # NULL THEN h.error ELSE appError
  /\ UNCHANGED <<loadPhase, startAwaits, beginTimeouts, loadResult,
                 notRecordingAppVars>>

\* handleStartRecording up to its await
HandleStartRecordingApp ==
  /\ appState \in InterfaceStates
  /\ startAwaits + beginTimeouts < MaxStarts
  /\ SetAppState(APP_STATES.COUNTDOWN)
  /\ startAwaits' = startAwaits + 1
  /\ UNCHANGED <<appError, loadPhase, beginTimeouts, loadResult,
                 notRecordingAppVars>>

\* its analytics call settles: a rejection ends the handler; otherwise the
\* interval runs, and its callback sets a timeout each time count is not
\* positive until the first timeout clears the interval, which is once or
\* twice
StartLogged(ok, timeouts) ==
  /\ startAwaits > 0
  /\ startAwaits' = startAwaits - 1
  /\ beginTimeouts' = IF ok THEN beginTimeouts + timeouts ELSE beginTimeouts
  /\ UNCHANGED <<appState, visited, appError, loadPhase, loadResult,
                 notRecordingAppVars>>

\* a timeout of the countdown fires
BeginTimeout ==
  /\ beginTimeouts > 0
  /\ beginTimeouts' = beginTimeouts - 1
  /\ SetAppState(APP_STATES.RECORDING)
  /\ UNCHANGED <<appError, loadPhase, startAwaits, loadResult,
                 notRecordingAppVars>>

NextRecordingApp ==
  \/ \E hasSessionId \in BOOLEAN : LoadSession(hasSessionId)
  \/ \E ok \in BOOLEAN : SessionStartLogged(ok)
  \/ \E fetch \in Fetches : SessionFetched(fetch)
  \/ \E name \in DOMAIN AppHandlers : ChildCalls(name)
  \/ HandleStartRecordingApp
  \/ \E ok \in BOOLEAN, timeouts \in 1..2 : StartLogged(ok, timeouts)
  \/ BeginTimeout

SpecRecordingApp == Init /\ [][NextRecordingApp]_vars

\* ---------------------------------- one start request of RecordingApp
\* handleStartRecording up to its await, with no earlier request under way
StartOnce ==
  /\ appState \in InterfaceStates
  /\ startAwaits = 0 /\ ~startInterval /\ beginTimeouts = 0
  /\ recordingSets = 0
  /\ SetAppState(APP_STATES.COUNTDOWN)
  /\ startAwaits' = 1
  /\ UNCHANGED <<appError, loadPhase, beginTimeouts, loadResult, startVars,
                 notStartVars>>

\* its analytics call settles: a rejection ends the handler, otherwise
\* count = 3 and the interval is set
CountdownBegins(ok) ==
  /\ startAwaits > 0
  /\ startAwaits' = startAwaits - 1
  /\ startCount' = 3
  /\ startInterval' = ok
  /\ UNCHANGED <<appState, visited, appError, loadPhase, beginTimeouts,
                 loadResult, recordingSets, stateAtSet, notStartVars>>

\* the interval's callback: a new timeout each time count is not positive.
\* The callback that is due together with the first timeout is the last one
\* that can run before it
CountdownInterval ==
  /\ startInterval
  /\ startCount > -1
  /\ startCount' = startCount - 1
  /\ beginTimeouts' =
       IF startCount - 1 > 0 THEN beginTimeouts ELSE beginTimeouts + 1
  /\ UNCHANGED <<appState, visited, appError, loadPhase, startAwaits,
                 loadResult, startInterval, recordingSets, stateAtSet,
                 notStartVars>>

\* a timeout's callback: clearInterval, setAppState(RECORDING)
BeginFires ==
  /\ beginTimeouts > 0
  /\ beginTimeouts' = beginTimeouts - 1
  /\ startInterval' = FALSE
  /\ stateAtSet' = appState
  /\ recordingSets' = recordingSets + 1
  /\ SetAppState(APP_STATES.RECORDING)
  /\ UNCHANGED <<appError, loadPhase, startAwaits, loadResult, startCount,
                 notStartVars>>

NextStart ==
  \/ \E hasSessionId \in BOOLEAN : LoadSession(hasSessionId)
  \/ \E ok \in BOOLEAN : SessionStartLogged(ok)
  \/ \E fetch \in Fetches : SessionFetched(fetch)
  \/ \E name \in DOMAIN AppHandlers : ChildCalls(name)
  \/ StartOnce
  \/ \E ok \in BOOLEAN : CountdownBegins(ok)
  \/ CountdownInterval
  \/ BeginFires

SpecStart == Init /\ [][NextStart]_vars

\* ------------------------------------------------- RecordingInterface
\* the buttons are rendered by the prop state, which the parent sets in the
\* callbacks; the handlers look at the recorder

\* mediaRecorder.onstop as setupMediaRecorder set it: onRecordingDone(blob,
\* recordingTime) with the closure's recordingTime; the parent's
\* handleRecordingDone stores the duration and sets REVIEW
OnStopInterface ==
  /\ doneDuration' = closureTime
  /\ stateProp' = APP_STATES.REVIEW

\* handleStartRecording: start(1000), startTimer, onStartRecording
InterfaceStart ==
  /\ stateProp = APP_STATES.RECORDING_READY
  /\ recorderState = "inactive"
  /\ recorderState' = "recording"
  /\ recordingTime' = 0
  /\ timerRunning' = TRUE
  /\ stateProp' = APP_STATES.RECORDING
  /\ interfaceOp' = "start"
  /\ UNCHANGED <<timeAtPause, closureTime, doneDuration, notInterfaceVars>>

\* the callback of startTimer's interval, with handleStopRecording at the cap
InterfaceTick ==
  /\ timerRunning
  /\ IF recordingTime + 1 >= MAX_RECORDING_TIME
       THEN /\ recordingTime' = MAX_RECORDING_TIME
            /\ recorderState' = "inactive"
            /\ timerRunning' = FALSE
            /\ OnStopInterface
            /\ interfaceOp' = "stop"
       ELSE /\ recordingTime' = recordingTime + 1
            /\ interfaceOp' = "tick"
            /\ UNCHANGED <<recorderState, timerRunning, stateProp,
                           doneDuration>>
  /\ UNCHANGED <<timeAtPause, closureTime, notInterfaceVars>>

\* handlePauseRecording: pause(), stopTimer, onPauseRecording
InterfacePause ==
  /\ stateProp = APP_STATES.RECORDING
  /\ recorderState = "recording"
  /\ recorderState' = "paused"
  /\ timerRunning' = FALSE
  /\ stateProp' = APP_STATES.PAUSED
  /\ timeAtPause' = recordingTime
  /\ interfaceOp' = "pause"
  /\ UNCHANGED <<recordingTime, closureTime, doneDuration, notInterfaceVars>>

\* handleResumeRecording: resume(), startTimer, onResumeRecording; startTimer
\* begins with setRecordingTime(0)
InterfaceResume ==
  /\ stateProp = APP_STATES.PAUSED
  /\ recorderState = "paused"
  /\ recorderState' = "recording"
  /\ recordingTime' = 0
  /\ timerRunning' = TRUE
  /\ stateProp' = APP_STATES.RECORDING
  /\ interfaceOp' = "resume"
  /\ UNCHANGED <<timeAtPause, closureTime, doneDuration, notInterfaceVars>>

\* handleStopRecording by the Done button, shown while paused
InterfaceStop ==
  /\ stateProp = APP_STATES.PAUSED
  /\ recorderState \in {"recording", "paused"}
  /\ recorderState' = "inactive"
  /\ timerRunning' = FALSE
  /\ OnStopInterface
  /\ interfaceOp' = "stop"
  /\ UNCHANGED <<recordingTime, timeAtPause, closureTime, notInterfaceVars>>

\* the parent's Start Over: the interface is mounted anew, and the memoized
\* setupMediaRecorder of the new mount holds the first render's recordingTime
InterfaceRemount ==
  /\ stateProp = APP_STATES.REVIEW
  /\ recordingTime' = 0
  /\ closureTime' = 0
  /\ timerRunning' = FALSE
  /\ recorderState' = "inactive"
  /\ stateProp' = APP_STATES.RECORDING_READY
  /\ interfaceOp' = "mount"
  /\ UNCHANGED <<timeAtPause, doneDuration, notInterfaceVars>>

NextInterface ==
  \/ InterfaceStart
  \/ InterfaceTick
  \/ InterfacePause
  \/ InterfaceResume
  \/ InterfaceStop
  \/ InterfaceRemount

SpecInterface == Init /\ [][NextInterface]_vars

\* ------------------------------------------- format selection on its own
\* the strings MediaRecorder.isTypeSupported may accept on some host: the
\* candidates of both modes and two formats the app never asks for
HostFormats ==
  {SUPPORTED_FORMATS.video[1], SUPPORTED_FORMATS.video[2],
   SUPPORTED_FORMATS.audio[1], SUPPORTED_FORMATS.audio[2],
   "video/webm;codecs=vp9", "audio/ogg;codecs=opus"}

\* a session on any host
InitFormat == InitSession /\ InitView /\ hostSupported \in SUBSET HostFormats

\* beginRecording from the probes to setActualMimeType, for a recorder the
\* host constructs with the options it is given
Negotiate(mode) ==
  /\ UNCHANGED otherVars
  /\ captureMode' = mode
  /\ actualMimeType' = RecorderMimeType(SelectFormat(mode, hostSupported))
  /\ lastOp' = "negotiate"
  /\ UNCHANGED <<pauseMark, lastCompleted>>
  /\ UNCHANGED <<mediaStream, mediaRecorder, recordedBlobUrl, recordedChunks,
                 isRecording, isPaused, elapsedSeconds, countdownVars,
                 appVars, hostVars>>

NextFormat == \E m \in Modes : Negotiate(m)

SpecFormat == InitFormat /\ [][NextFormat]_vars

\* ------------------------------------------------- useCountdown on its own
\* a caller of the hook that keeps the handle: it starts countdowns with
\* one of two callbacks that do nothing to the session, and may cancel any
\* countdown that runs
Callbacks == {"f", "g"}

CallerStart(f) ==
  /\ UNCHANGED otherVars
  /\ StartCountdown(f, 0, NULL, 0)
  /\ lastOp' = "startCountdown"
  /\ UNCHANGED <<pauseMark, lastCompleted>>
  /\ UNCHANGED <<hookVars, appVars, hostVars>>

CallerComplete(i) ==
  /\ UNCHANGED otherVars
  /\ Completes(i)
  /\ lastOp' = "complete"
  /\ UNCHANGED pauseMark
  /\ UNCHANGED <<hookVars, appVars, hostVars>>

NextCountdown ==
  \/ \E f \in Callbacks : CallerStart(f)
  \/ \E i \in 1..MaxCountdowns : CountdownStep(i)
  \/ \E i \in 1..MaxCountdowns : CallerComplete(i)
  \/ \E i \in 1..MaxCountdowns : Cancel(i)

SpecCountdown == Init /\ [][NextCountdown]_vars

\* ------------------------------------------------ error classification
\* utils/constants.js of the view app
ERROR_TYPES ==
  [PERMISSION_DENIED |-> "permission_denied", NO_DEVICE |-> "no_device",
   NOT_SUPPORTED |-> "not_supported", OVERCONSTRAINED |-> "overconstrained",
   NETWORK_ERROR |-> "network_error", UPLOAD_ERROR |-> "upload_error",
   SESSION_EXPIRED |-> "expired", SESSION_COMPLETED |-> "completed",
   SESSION_REMOVED |-> "removed", INVALID_URL |-> "invalid_url"]

\* the value of a property read: undefined when the object has no such key
Undefined == "undefined"
Get(object, key) == IF key \in DOMAIN object THEN object[key] ELSE Undefined

\* String.prototype.toLowerCase on the words that occur in failures
CaseTable ==
  [NotAllowedError |-> "notallowederror", NotFoundError |-> "notfounderror",
   NotSupportedError |-> "notsupportederror",
   OverconstrainedError |-> "overconstrainederror", TypeError |-> "typeerror",
   Permission |-> "permission", No |-> "no", Not |-> "not",
   Network |-> "network", Upload |-> "upload", Requested |-> "requested",
   Codec |-> "codec", Failed |-> "failed", Something |-> "something"]
ToLowerCase(word) == IF word \in DOMAIN CaseTable THEN CaseTable[word] ELSE word
LowerWords(text) == [k \in 1..Len(text) |-> ToLowerCase(text[k])]

\* String.prototype.includes on texts taken word by word
Includes(text, phrase) ==
  \E k \in 0..(Len(text) - Len(phrase)) :
    SubSeq(text, k + 1, k + Len(phrase)) = phrase

\* the names and messages of the failures a host call is tried with
FailureNames ==
  {"NotAllowedError", "NotFoundError", "NotSupportedError",
   "OverconstrainedError", "TypeError"}
FailureMessages ==
  {<<>>,
   <<"Permission", "denied">>,
   <<"Requested", "device", "not", "found">>,
   <<"No", "device", "available">>,
   <<"Codec", "not", "supported">>,
   <<"Network", "request", "failed">>,
   <<"Failed", "to", "fetch">>,
   <<"Upload", "failed">>,
   <<"Something", "went", "wrong">>,
   <<"Requested", "device", "not", "found", "check", "the", "permission", "settings">>}
\* a field a failure lacks reads as undefined: it has no content
WellFormed(f) ==
  /\ ~f.hasName => f.name = ""
  /\ ~f.hasMessage => f.message = <<>>

Failures ==
  {NoFailure} \cup
  {f \in [present : {TRUE}, hasName : BOOLEAN, name : FailureNames \cup {""},
          hasMessage : BOOLEAN, message : FailureMessages] : WellFormed(f)}

\* ErrorHandler.determineErrorType
determineErrorType(error) ==
  IF ~error.present THEN Get(ERROR_TYPES, "UNKNOWN")
  ELSE
    LET errorName == IF error.hasName THEN ToLowerCase(error.name) ELSE ""
        errorMessage == IF error.hasMessage THEN LowerWords(error.message) ELSE <<>>
    IN IF errorName = "notallowederror" \/ Includes(errorMessage, <<"permission">>)
         THEN ERROR_TYPES.PERMISSION_DENIED
       ELSE IF errorName = "notfounderror" \/ Includes(errorMessage, <<"no", "device">>)
         THEN ERROR_TYPES.NO_DEVICE
       ELSE IF \/ errorName = "notsupportederror"
               \/ Includes(errorMessage, <<"not", "supported">>)
         THEN ERROR_TYPES.NOT_SUPPORTED
       ELSE IF errorName = "overconstrainederror" THEN ERROR_TYPES.OVERCONSTRAINED
       ELSE IF \/ Includes(errorMessage, <<"network">>)
               \/ Includes(errorMessage, <<"fetch">>)
               \/ Includes(errorMessage, <<"connection">>)
         THEN ERROR_TYPES.NETWORK_ERROR
       ELSE IF \/ Includes(errorMessage, <<"upload">>)
               \/ Includes(errorMessage, <<"storage">>)
         THEN ERROR_TYPES.UPLOAD_ERROR
       ELSE "general_error"

\* ErrorHandler.isRecoverable
isRecoverable(errorType) ==
  errorType \in {ERROR_TYPES.NETWORK_ERROR, ERROR_TYPES.UPLOAD_ERROR,
                 ERROR_TYPES.PERMISSION_DENIED, "general_error"}

\* ErrorHandler.isRetryable
isRetryable(errorType) ==
  errorType \in {ERROR_TYPES.NETWORK_ERROR, ERROR_TYPES.UPLOAD_ERROR,
                 "general_error"}

\* ErrorHandler.processError: the fields that depend on the failure's kind
processError(error) ==
  LET errorType == determineErrorType(error)
  IN [type |-> errorType, recoverable |-> isRecoverable(errorType),
      retryable |-> isRetryable(errorType)]

\* the catch block of initializeMedia: the kind it stores, by error.name
InitializeMediaCatch(error) ==
  LET errorType ==
        IF error.hasName /\ error.name = "NotAllowedError" THEN "permission_denied"
        ELSE IF error.hasName /\ error.name = "NotFoundError" THEN "no_device"
        ELSE IF error.hasName /\ error.name = "NotSupportedError" THEN "not_supported"
        ELSE IF error.hasName /\ error.name = "OverconstrainedError"
          THEN "overconstrained"
        ELSE "general"
  IN [type |-> errorType, recoverable |-> FALSE, retryable |-> FALSE]

\* utils/errors.js of the recording app
UPLOAD_ERRORS ==
  [QUOTA_EXCEEDED |-> "QUOTA_EXCEEDED", NETWORK_ERROR |-> "NETWORK_ERROR",
   INVALID_FILE |-> "INVALID_FILE", PERMISSION_DENIED |-> "PERMISSION_DENIED",
   TIMEOUT |-> "TIMEOUT", UNKNOWN |-> "UNKNOWN"]

ERROR_MESSAGES ==
  [QUOTA_EXCEEDED |-> "Storage quota exceeded. Please free up space and try again.",
   NETWORK_ERROR |-> "Network connection failed. Please check your connection.",
   INVALID_FILE |-> "Invalid file format or corrupted file.",
   PERMISSION_DENIED |-> "Permission denied. Please check your permissions.",
   TIMEOUT |-> "Operation timed out. Please try again.",
   UNKNOWN |-> "An unexpected error occurred. Please try again."]

\* what a || b takes as true of a string, null or undefined
Truthy(x) == x \notin {NULL, Undefined, ""}

\* new Date().toISOString() at the instants a run may call it
ISOStrings == <<"1970-01-01T00:00:00.000Z", "1970-01-01T00:00:01.000Z">>
toISOString(now) == ISOStrings[now + 1]
Instants == 0..(Len(ISOStrings) - 1)

\* variant: the message falls back to the kind's default only
createErrorNoFallback(type, message, originalError, now) ==
  [type |-> type,
   message |-> IF Truthy(message) THEN message ELSE Get(ERROR_MESSAGES, type),
   timestamp |-> toISOString(now),
   originalError |-> IF originalError.present THEN originalError ELSE NoFailure]

\* createError; originalError is copied field by field when it is given
createError(type, message, originalError, now) ==
  [type |-> type,
   message |-> IF Truthy(message) THEN message
               ELSE IF Truthy(Get(ERROR_MESSAGES, type))
                 THEN Get(ERROR_MESSAGES, type)
               ELSE ERROR_MESSAGES[UPLOAD_ERRORS.UNKNOWN],
   timestamp |-> toISOString(now),
   originalError |-> IF originalError.present THEN originalError ELSE NoFailure]

\* the kinds and messages createError is called with: the declared kinds,
\* one no table knows, and none at all; a custom text, an empty one, none
CreateTypes ==
  {UPLOAD_ERRORS[k] : k \in DOMAIN UPLOAD_ERRORS} \cup {"SOMETHING_ELSE", Undefined}
CreateMessages ==
  {NULL, "", "Failed to create MediaRecorder with the selected format"}

\* some caller builds a structured error
CreateError(type, message, now) ==
  /\ structuredError = NoError
  /\ \E orig \in {hostFailure, NoFailure} :
       /\ structuredError' = createError(type, message, orig, now)
       /\ createArgs' = [type |-> type, message |-> message, originalError |-> orig]
  /\ UNCHANGED <<hostFailure, errorInfo, permissionError>>
  /\ UNCHANGED notErrorVars

\* the catch block of handleAudioClick / handleVideoClick: every rejection
\* of getUserMedia is reported as PERMISSION_DENIED
HookCatchMessage(mode) ==
  IF mode = "video"
    THEN "Failed to access camera and microphone for video recording"
    ELSE "Failed to access microphone for audio recording"

HookCatch(mode, now) ==
  /\ hostFailure.present /\ structuredError = NoError
  /\ structuredError' = createError(UPLOAD_ERRORS.PERMISSION_DENIED,
                                    HookCatchMessage(mode), hostFailure, now)
  /\ createArgs' = [type |-> UPLOAD_ERRORS.PERMISSION_DENIED,
                    message |-> HookCatchMessage(mode),
                    originalError |-> hostFailure]
  /\ UNCHANGED <<hostFailure, errorInfo, permissionError>>
  /\ UNCHANGED notErrorVars

\* a host call fails
Fails(f) ==
  /\ hostFailure = NoFailure /\ errorInfo = NoInfo /\ permissionError = NoInfo
  /\ f \in Failures /\ f.present
  /\ hostFailure' = f
  /\ UNCHANGED <<errorInfo, permissionError, structuredError, createArgs>>
  /\ UNCHANGED notErrorVars

\* ErrorHandler.handleError is given the failure, or nothing at all
HandleError ==
  /\ errorInfo = NoInfo
  /\ errorInfo' = processError(hostFailure)
  /\ UNCHANGED <<hostFailure, permissionError, structuredError, createArgs>>
  /\ UNCHANGED notErrorVars

\* getUserMedia rejected in initializeMedia
InitializeMediaFails ==
  /\ hostFailure.present /\ permissionError = NoInfo
  /\ permissionError' = InitializeMediaCatch(hostFailure)
  /\ UNCHANGED <<hostFailure, errorInfo, structuredError, createArgs>>
  /\ UNCHANGED notErrorVars

NextErrors ==
  \/ \E f \in Failures : Fails(f)
  \/ HandleError
  \/ InitializeMediaFails
  \/ \E t \in CreateTypes, m \in CreateMessages, now \in Instants :
       CreateError(t, m, now)
  \/ \E mode \in Modes, now \in Instants : HookCatch(mode, now)

SpecErrors == Init /\ [][NextErrors]_vars

\* ------------------------------------------- ErrorHandler.errorHistory
\* the errors handleError is called with here: none at all, a refused
\* permission, a failed request
HandledErrors ==
  {NoFailure,
   [present |-> TRUE, hasName |-> TRUE, name |-> "NotAllowedError",
    hasMessage |-> TRUE, message |-> <<"Permission", "denied">>],
   [present |-> TRUE, hasName |-> FALSE, name |-> "",
    hasMessage |-> TRUE, message |-> <<"Network", "request", "failed">>]}

\* Array.prototype.slice(-n)
SliceLast(list, n) ==
  IF Len(list) <= n THEN list ELSE SubSeq(list, Len(list) - n + 1, Len(list))

\* the push and the cut of handleError, with slice(0, n) for slice(-n)
PushAndCutKeepsFirst(history, info) ==
  LET pushed == Append(history, info)
  IN IF Len(pushed) > HISTORY_LIMIT THEN SubSeq(pushed, 1, HISTORY_LIMIT)
     ELSE pushed

\* the push and the cut of handleError
PushAndCut(history, info) ==
  LET pushed == Append(history, info)
  IN IF Len(pushed) > HISTORY_LIMIT THEN SliceLast(pushed, HISTORY_LIMIT)
     ELSE pushed

\* handleError up to its first await: processError, push, cut
HandleErrorCall(error) ==
  /\ Len(handled) < MaxHandled
  /\ errorHistory' = PushAndCut(errorHistory, processError(error))
  /\ handled' = Append(handled, processError(error))
  /\ UNCHANGED notHistoryVars

\* clearHistory
ClearHistory ==
  /\ errorHistory' = <<>>
  /\ handled' = <<>>
  /\ UNCHANGED notHistoryVars

NextHistory ==
  \/ \E error \in HandledErrors : HandleErrorCall(error)
  \/ ClearHistory

SpecHistory == Init /\ [][NextHistory]_vars

\* ---------------------------------------------- the elapsed-time tickers
\* the two hooks belong to two apps: a run exercises one of them
FlowTickerVars == <<tickers, timerDeps, intervalId>>
HookTickerVars == <<hookRecorder, hookStream, hookPending, hookTimers,
                    timerRefLive, hookRecording, hookPaused, hookTime>>
HookUnused ==
  /\ hookRecorder = "none" /\ ~hookStream /\ hookPending = 0
  /\ hookTimers = 0 /\ ~hookRecording /\ ~hookPaused /\ hookTime = 0

\* React has run the recording timer effect for the committed flags
EffectsFlushed == timerDeps = <<isRecording, isPaused>>

\* variant: the effect returns no cleanup
TimerEffectNoCleanup ==
  /\ ~EffectsFlushed
  /\ tickers < MaxTickers
  /\ tickers' = IF isRecording /\ ~isPaused THEN tickers + 1 ELSE tickers
  /\ intervalId' = (isRecording /\ ~isPaused)
  /\ timerDeps' = <<isRecording, isPaused>>
  /\ UNCHANGED <<flowVars, HookTickerVars, notTickerVars>>

\* the recording timer effect of useRecordingFlow, run because a dependency
\* changed: the cleanup of its last run, then its body
TimerEffect ==
  /\ ~EffectsFlushed
  /\ LET cleaned == IF intervalId THEN tickers - 1 ELSE tickers
     IN tickers' = IF isRecording /\ ~isPaused THEN cleaned + 1 ELSE cleaned
  /\ intervalId' = (isRecording /\ ~isPaused)
  /\ timerDeps' = <<isRecording, isPaused>>
  /\ UNCHANGED <<flowVars, HookTickerVars, notTickerVars>>

\* the app: effects run before the next event is handled
FlowStep == EffectsFlushed /\ HookUnused /\ Next

\* setInterval / clearInterval(timerRef.current) of useRecording
SetTimer ==
  /\ hookTimers' = hookTimers + 1
  /\ timerRefLive' = TRUE
ClearTimer ==
  /\ hookTimers' = IF timerRefLive THEN hookTimers - 1 ELSE hookTimers
  /\ timerRefLive' = FALSE

\* the body of stopRecording
StopRecordingBody ==
  /\ hookRecorder' = IF hookRecorder \in {"recording", "paused"}
                       THEN "inactive" ELSE hookRecorder
  /\ hookRecording' = FALSE
  /\ hookPaused' = FALSE
  /\ ClearTimer

\* startRecording from the point where the stream is there: setupRecorder,
\* start(1000), which throws unless the recorder is inactive, the flags, the
\* timer; the catch stores the error
StartRecordingBody ==
  IF hookRecorder \in {"recording", "paused"}
    THEN UNCHANGED <<hookRecorder, hookTimers, timerRefLive, hookRecording,
                     hookPaused, hookTime>>
    ELSE /\ hookRecorder' = "recording"
         /\ hookRecording' = TRUE
         /\ hookPaused' = FALSE
         /\ hookTime' = 0
         /\ SetTimer

\* startRecording up to its await, or to its end when the stream is there
startRecording ==
  /\ IF hookStream
       THEN StartRecordingBody /\ UNCHANGED <<hookStream, hookPending>>
       ELSE /\ hookPending < MaxPending
            /\ hookPending' = hookPending + 1
            /\ UNCHANGED <<hookRecorder, hookStream, hookTimers, timerRefLive,
                           hookRecording, hookPaused, hookTime>>
  /\ UNCHANGED <<flowVars, FlowTickerVars, notTickerVars>>

\* getUserMedia of initializeStream settles: a rejection ends startRecording
\* in its catch
StreamSettles(ok) ==
  /\ hookPending > 0
  /\ hookPending' = hookPending - 1
  /\ IF ok
       THEN hookStream' = TRUE /\ StartRecordingBody
       ELSE UNCHANGED <<hookRecorder, hookStream, hookTimers, timerRefLive,
                        hookRecording, hookPaused, hookTime>>
  /\ UNCHANGED <<flowVars, FlowTickerVars, notTickerVars>>

\* variant: pauseRecording leaves the interval running
pauseRecordingKeepsTimer ==
  /\ hookRecorder = "recording"
  /\ hookRecorder' = "paused"
  /\ hookPaused' = TRUE
  /\ UNCHANGED <<hookTimers, timerRefLive>>
  /\ UNCHANGED <<hookStream, hookPending, hookRecording, hookTime>>
  /\ UNCHANGED <<flowVars, FlowTickerVars, notTickerVars>>

\* pauseRecording, where it acts
pauseRecording ==
  /\ hookRecorder = "recording"
  /\ hookRecorder' = "paused"
  /\ hookPaused' = TRUE
  /\ ClearTimer
  /\ UNCHANGED <<hookStream, hookPending, hookRecording, hookTime>>
  /\ UNCHANGED <<flowVars, FlowTickerVars, notTickerVars>>

\* resumeRecording, where it acts
resumeRecording ==
  /\ hookRecorder = "paused"
  /\ hookRecorder' = "recording"
  /\ hookPaused' = FALSE
  /\ SetTimer
  /\ UNCHANGED <<hookStream, hookPending, hookRecording, hookTime>>
  /\ UNCHANGED <<flowVars, FlowTickerVars, notTickerVars>>

\* stopRecording, called by the user of the hook once it was started
stopRecording ==
  /\ hookRecorder # "none"
  /\ StopRecordingBody
  /\ UNCHANGED <<hookStream, hookPending, hookTime>>
  /\ UNCHANGED <<flowVars, FlowTickerVars, notTickerVars>>

\* the callback of an interval of the hook, with stopRecording at the cap
HookTick ==
  /\ hookTimers > 0
  /\ IF hookTime + 1 >= MAX_RECORDING_TIME
       THEN /\ hookTime' = MAX_RECORDING_TIME
            /\ StopRecordingBody
       ELSE /\ hookTime' = hookTime + 1
            /\ UNCHANGED <<hookRecorder, hookTimers, timerRefLive,
                           hookRecording, hookPaused>>
  /\ UNCHANGED <<hookStream, hookPending>>
  /\ UNCHANGED <<flowVars, FlowTickerVars, notTickerVars>>

NextTicker ==
  \/ FlowStep
  \/ TimerEffect
  \/ InitSession /\ startRecording
  \/ \E ok \in BOOLEAN : StreamSettles(ok)
  \/ pauseRecording
  \/ resumeRecording
  \/ stopRecording
  \/ HookTick

SpecTicker == Init /\ [][NextTicker]_vars

\* ------------------------------------------------------------- properties
LiveRecorders == {r \in 1..Len(recorders) : recorders[r].state # "inactive"}

IsPrefix(a, b) == Len(a) <= Len(b) /\ SubSeq(b, 1, Len(a)) = a

\* C1: elapsedSeconds is always an integer between 0 and
\* MAX_DURATION_SECONDS, whatever is done to the session.
C1_ElapsedInRange == elapsedSeconds \in 0..MAX_DURATION_SECONDS

C1_Witness ==
  elapsedSeconds = MAX_DURATION_SECONDS /\ isRecording /\ ~isPaused

\* C2: finalizing is idempotent: no recorder has stop() called on it more
\* than once or while it is inactive, no recorder produces more than one
\* artifact, a recorder whose stop task has run produced exactly one, and
\* once handleDone has run (auto-transition included) the session holds no
\* recorder and the auto-transition is not due again.
C2_FinalizeOnce ==
  /\ \A r \in 1..Len(recorders) :
       /\ recorders[r].stops <= 1
       /\ recorders[r].stopsInactive = 0
       /\ recorders[r].blobs <= 1
       /\ recorders[r].flush = "done" => recorders[r].blobs = 1
  /\ lastOp \in {"auto", "done", "reset"} =>
       ~isRecording /\ ~isPaused /\ mediaRecorder = 0 /\ ~AutoTransitionDue

C2_Witness ==
  /\ lastOp = "reset"
  /\ \E r \in 1..Len(recorders) : recorders[r].stops = 1 /\ recorders[r].blobs = 1

\* C3: once elapsedSeconds has reached MAX_DURATION_SECONDS while the session
\* records, the auto-transition is ready to run with no user action, and
\* the next thing that happens to the session leaves it Stopped with the
\* submit stage shown, the recorder stopped and the stream released.
C3_AutoFinalize ==
  [][(elapsedSeconds = MAX_DURATION_SECONDS /\ isRecording /\ ~isPaused) =>
       /\ ENABLED AutoTransition
       /\ Stopped' /\ submitStage'
       /\ mediaRecorder # 0 => recorders'[mediaRecorder].state = "inactive"
       /\ mediaStream # 0 => streams'[mediaStream].live = {}]_vars

C3_Witness == lastOp = "auto" /\ Stopped /\ submitStage

\* C4: the artifact built in a recorder's onstop handler is the
\* concatenation, in emission order, of the chunks that recorder delivered.
C4_ArtifactIsOwnChunks ==
  recordedBlobUrl # NoBlob =>
    BlobBytes(recordedBlobUrl.chunks) =
      BlobBytes(recorders[recordedBlobUrl.by].emitted)

C6_ResetStaysIdle ==
  [][(captureMode = NULL /\ Stopped) =>
       (Len(recorders') = Len(recorders) /\ ~isRecording')]_vars

\* C7: after a reset the session's observable state is that of a fresh one.
C7_ResetIsFresh ==
  lastOp = "reset" =>
    /\ captureMode = NULL
    /\ mediaStream = 0
    /\ mediaRecorder = 0
    /\ recordedChunks = <<>>
    /\ recordedBlobUrl = NoBlob
    /\ actualMimeType = NULL
    /\ elapsedSeconds = 0

\* C8: at most one recorder is live (recording or paused) at any time.
C8_OneLiveRecorder == Cardinality(LiveRecorders) <= 1

\* C9: at most one countdown is active at any time.
C9_OneCountdown == Len(countdowns) <= 1

\* C10: a countdown that runs shows the steps in order, one per tick, and
\* has not called onComplete; the one that completed did so on the tick
\* after the last step, called onComplete once and had shown every step.
C10_CountdownRuns ==
  /\ \A i \in 1..Len(countdowns) :
       /\ countdowns[i].ticks < Len(COUNTDOWN_STEPS)
       /\ countdowns[i].calls = 0
       /\ countdowns[i].shown = SubSeq(COUNTDOWN_STEPS, 1, countdowns[i].ticks + 1)
  /\ lastCompleted # NoCountdown =>
       /\ lastCompleted.ticks = Len(COUNTDOWN_STEPS)
       /\ lastCompleted.calls = 1
       /\ lastCompleted.shown = COUNTDOWN_STEPS

C10_Witness == lastCompleted # NoCountdown /\ countdowns = <<>> /\ ~countdownActive

\* C11: a countdown whose cancel handle was called before it completed never
\* ticks again and never calls onComplete, and the call leaves the displayed
\* state cleared (countdownActive false, countdownValue null).
C11_CancelSuppresses ==
  /\ [](/\ \A i \in 1..Len(countdowns) : ~countdowns[i].cancelled
        /\ ~lastCompleted.cancelled)
  /\ [][(\E i \in 1..MaxCountdowns : Cancel(i)) =>
          (~countdownActive' /\ countdownValue' = NULL
           /\ Len(countdowns') = Len(countdowns) - 1)]_vars

C11_Witness ==
  lastOp = "cancel" /\ ~countdownActive /\ countdownValue = NULL

\* C12: at most one getUserMedia grant attempt is outstanding at any time.
C12_OneGrantAttempt == PendingTotal <= 1

Idle ==
  /\ mediaStream = 0 /\ captureMode = NULL /\ mediaRecorder = 0
  /\ ~isRecording /\ ~isPaused

SupportedRanks(list, supported) == {k \in 1..Len(list) : list[k] \in supported}

\* C15: for each mode and each set of formats the host supports, the format
\* the recorder is constructed with is the first supported candidate of the
\* mode's list, and the host default exactly when no candidate is supported.
C15_FirstSupportedFormat ==
  lastOp = "negotiate" =>
    LET list  == SUPPORTED_FORMATS[captureMode]
        ranks == SupportedRanks(list, hostSupported)
    IN /\ ranks # {} =>
            /\ actualMimeType \in hostSupported
            /\ \E k \in ranks : /\ actualMimeType = list[k]
                                 /\ \A j \in ranks : k <= j
       /\ ranks = {} <=> actualMimeType = HostDefault

C15_Witness ==
  /\ lastOp = "negotiate" /\ captureMode = "audio"
  /\ SUPPORTED_FORMATS.audio[1] \notin hostSupported
  /\ SUPPORTED_FORMATS.audio[2] \in hostSupported
  /\ actualMimeType = SUPPORTED_FORMATS.audio[2]

\* C16: whenever an artifact exists, its type and actualMimeType both equal
\* the mimeType of the recorder that produced it.
C16_MimeTypeVerbatim ==
  recordedBlobUrl # NoBlob =>
    /\ recordedBlobUrl.type = recorders[recordedBlobUrl.by].mimeType
    /\ actualMimeType = recorders[recordedBlobUrl.by].mimeType

\* C17: after done() or Start Over in which one release call threw, no
\* stream and no recorder is stored and every track of every stream is
\* stopped.
C17_ReleaseDespiteThrow ==
  lastOp \in {"doneThrew", "resetThrew"} =>
    /\ mediaStream = 0 /\ mediaRecorder = 0
    /\ \A s \in 1..Len(streams) : streams[s].live = {}

\* C18: elapsedSeconds changes in two ways only: a tick of the recording
\* timer while isRecording and not isPaused adds exactly 1, and the
\* completion of a start countdown sets it to 0; every other step, a pause,
\* a resume and its countdown, done and Start Over among them, leaves it as
\* it is, and below the limit every tick of the recording timer adds 1, so
\* the limit is reached by MAX_DURATION_SECONDS such ticks after the reset.
C18_ElapsedFrame ==
  /\ [][elapsedSeconds' # elapsedSeconds =>
          \/ /\ TimerTick /\ isRecording /\ ~isPaused
             /\ elapsedSeconds' = elapsedSeconds + 1
          \/ /\ \E i \in 1..MaxCountdowns : CountdownStartDone(i)
             /\ elapsedSeconds' = 0]_vars
  /\ [][(TimerTick /\ elapsedSeconds < MAX_DURATION_SECONDS) =>
          elapsedSeconds' = elapsedSeconds + 1]_vars
  /\ [][(\E i \in 1..MaxCountdowns : CountdownStartDone(i)) =>
          elapsedSeconds' = 0]_vars

C18_Witness ==
  /\ lastOp = "resume" /\ countdownActive /\ ~isRecording
  /\ elapsedSeconds = MAX_DURATION_SECONDS - 1

\* C19: the buffer holds chunks of the recorder of the latest attempt only,
\* and an artifact holds no chunk of a recorder created before the one that
\* produced it.
C19_BufferOfOneAttempt ==
  /\ \A k \in 1..Len(recordedChunks) : recordedChunks[k].rec = Len(recorders)
  /\ recordedBlobUrl # NoBlob =>
       \A k \in 1..Len(recordedBlobUrl.chunks) :
         recordedBlobUrl.chunks[k].rec >= recordedBlobUrl.by

\* C20: handleDone run from a recording session (the auto-transition) and
\* run from a paused one (the Done button) leave the same state: the stored
\* recorder is inactive, stopped by one stop() call from whichever state it
\* was in, every track of the stored stream is stopped, no stream and no
\* recorder is stored, isRecording and isPaused are false; and the artifact
\* a stopped recorder builds is the chunk buffer with the recorder's type.
C20_DoneFromEitherState ==
  /\ [][(ClickDone \/ AutoTransition) =>
          /\ Stopped'
          /\ mediaRecorder # 0 =>
               /\ recorders'[mediaRecorder].state = "inactive"
               /\ recorders[mediaRecorder].state \in {"recording", "paused"} =>
                    /\ recorders'[mediaRecorder].stops =
                         recorders[mediaRecorder].stops + 1
                    /\ recorders'[mediaRecorder].flush = "pending"
          /\ mediaStream # 0 => streams'[mediaStream].live = {}]_vars
  /\ [][\A r \in 1..MaxRecorders : OnStop(r) =>
          /\ recordedBlobUrl'.chunks = recordedChunks'
          /\ recordedBlobUrl'.type = recorders[r].mimeType
          /\ recordedBlobUrl'.by = r]_vars

C20_Witness ==
  /\ lastOp = "done" /\ Stopped /\ submitStage
  /\ recordedBlobUrl # NoBlob
  /\ recordedBlobUrl.by = Len(recorders)
  /\ recordedBlobUrl.chunks # <<>>
  /\ recorders[recordedBlobUrl.by].stops = 1
  /\ \A s \in 1..Len(streams) : streams[s].live = {}

\* the kinds the view app declares
ErrorKinds == {ERROR_TYPES[k] : k \in DOMAIN ERROR_TYPES}

\* C21: whatever failure the classifier is given, a null one included, the
\* kind it returns is one of the declared kinds.
C21_ClassifierTotal == errorInfo # NoInfo => errorInfo.type \in ErrorKinds

\* C22: a failure named NotAllowedError is classified as a permission
\* refusal, one named NotFoundError as a missing device and one named
\* NotSupportedError as unsupported, whatever its message says.
C22_ClassifiedByName ==
  (errorInfo # NoInfo /\ hostFailure.hasName) =>
    /\ hostFailure.name = "NotAllowedError" =>
         errorInfo.type = ERROR_TYPES.PERMISSION_DENIED
    /\ hostFailure.name = "NotFoundError" => errorInfo.type = ERROR_TYPES.NO_DEVICE
    /\ hostFailure.name = "NotSupportedError" =>
         errorInfo.type = ERROR_TYPES.NOT_SUPPORTED

\* C24: a failure classified as a permission refusal or as a missing device
\* is marked retryable, and one classified as unsupported is not.
C24_RetryableKinds ==
  errorInfo # NoInfo =>
    /\ errorInfo.type \in {ERROR_TYPES.PERMISSION_DENIED, ERROR_TYPES.NO_DEVICE} =>
         errorInfo.retryable
    /\ errorInfo.type = ERROR_TYPES.NOT_SUPPORTED => ~errorInfo.retryable

\* C23: the error createError returns carries the kind it was given, a
\* non-empty message (the custom one, else the kind's default, else the
\* default of UNKNOWN), a timestamp, and the failure it was given or none.
C23_StructuredError ==
  structuredError # NoError =>
    /\ structuredError.type = createArgs.type
    /\ Truthy(structuredError.message)
    /\ structuredError.message =
         IF Truthy(createArgs.message) THEN createArgs.message
         ELSE IF createArgs.type \in DOMAIN ERROR_MESSAGES
           THEN ERROR_MESSAGES[createArgs.type]
         ELSE ERROR_MESSAGES.UNKNOWN
    /\ structuredError.timestamp \in {ISOStrings[k] : k \in 1..Len(ISOStrings)}
    /\ structuredError.originalError = createArgs.originalError

C23_Witness ==
  /\ structuredError # NoError
  /\ createArgs.type = "SOMETHING_ELSE" /\ createArgs.message = ""
  /\ createArgs.originalError.present
  /\ structuredError.message = ERROR_MESSAGES.UNKNOWN

\* C25: the session is in one state at a time: while it records no countdown
\* is shown or running, and isRecording and isPaused are never both true.
C25_OneSessionState ==
  /\ ~(isRecording /\ isPaused)
  /\ isRecording => (~countdownActive /\ countdowns = <<>>)

\* a submit request with no artifact changes nothing of the submission and
\* invokes no upload
SubmitWithoutArtifact ==
  [][ClickSubmit /\ recordedBlobUrl = NoBlob => UNCHANGED submitVars]_vars

LastOutcome == IF fnLog = <<>> THEN NoOutcome ELSE fnLog[Len(fnLog)]

\* the invocations of fn made so far
FnCalls == Len(fnLog) + (IF retryPhase = "awaiting" THEN 1 ELSE 0)

\* C27: a call of retryWithDelay invokes fn at most retries+1 times; it returns
\* the value of the first invocation that succeeds and invokes fn no more;
\* when retries+1 invocations have failed it rejects with the error of the
\* last one; and every call settles, given that the timeout fires and that
\* each promise fn returns settles.
RetryBounded ==
  /\ retryArgs # NoCall => FnCalls <= retryArgs.retries + 1
  /\ \A k \in 1..Len(fnLog) : fnLog[k].ok => k = Len(fnLog)
  /\ retryPhase = "resolved" <=> LastOutcome.ok
  /\ retryPhase = "rejected" <=>
       (fnLog # <<>> /\ Len(fnLog) = retryArgs.retries + 1 /\ ~LastOutcome.ok)
  /\ retryPhase \in {"resolved", "rejected"} => retryResult = LastOutcome
  /\ retryPhase \in {"idle", "awaiting", "waiting"} => retryResult = NoOutcome
  /\ retryPhase \in {"awaiting", "waiting"} =>
       retriesLeft = retryArgs.retries + 1 - FnCalls

RetryTerminates ==
  (retryPhase = "awaiting") ~> (retryPhase \in {"resolved", "rejected"})

C27_WitnessResolved ==
  /\ retryPhase = "resolved"
  /\ Len(fnLog) = 3
  /\ retryArgs.retries = 3

\* the modes of the clicks the handler did not ignore, in order
RECURSIVE Accepted(_)
Accepted(cs) ==
  IF cs = <<>> THEN <<>>
  ELSE (IF Head(cs).ignored THEN <<>> ELSE <<Head(cs).mode>>)
         \o Accepted(Tail(cs))

\* C28 as stated: once a mode button has been clicked the selector is loading
\* and every further click is ignored, so onModeSelected is invoked at most
\* once and only with the first-clicked mode.
C28_InvokedAtMostOnce ==
  /\ clicks # <<>> => isLoading
  /\ \A k \in 2..Len(clicks) : clicks[k].ignored
  /\ Len(modeCalls) <= 1
  /\ modeCalls # <<>> => modeCalls[1] = clicks[1].mode

\* C28, amended: a click is ignored exactly when the selector is loading; the
\* selector is loading from an accepted click until a call of onModeSelected
\* throws; onModeSelected is invoked once per accepted click and with its
\* mode, so while no call has thrown every click after the first is ignored
\* and onModeSelected is invoked at most once, with the first-clicked mode.
C28_OncePerAcceptedClick ==
  /\ isLoading <=> Len(Accepted(clicks)) > selectThrows
  /\ Len(Accepted(clicks)) <= selectThrows + 1
  /\ IsPrefix(modeCalls, Accepted(clicks))
  /\ Len(modeCalls) >= selectThrows
  /\ selectedMode = (IF clicks = <<>> THEN "video"
                     ELSE Accepted(clicks)[Len(Accepted(clicks))])
  /\ selectThrows = 0 =>
       /\ clicks # <<>> => isLoading
       /\ \A k \in 2..Len(clicks) : clicks[k].ignored
       /\ Len(modeCalls) <= 1
       /\ modeCalls # <<>> => modeCalls[1] = clicks[1].mode

C28_Witness ==
  /\ isLoading
  /\ selectThrows = 0
  /\ modeCalls = <<"audio">>
  /\ Len(clicks) = 3
  /\ clicks[2].mode = "video"
  /\ selectedMode = "audio"

RecordingStates ==
  {APP_STATES.RECORDING_READY, APP_STATES.COUNTDOWN, APP_STATES.RECORDING,
   APP_STATES.PAUSED}

C29_WitnessError ==
  /\ appState = APP_STATES.SESSION_ERROR
  /\ loadResult = "expired"

\* C30: in RecordingInterface recordingTime after a resume equals its value
\* at the pause; the resume does not reset it to 0.
C30_ResumeKeepsTime ==
  interfaceOp = "resume" => recordingTime = timeAtPause

\* C31: the timeouts of one start request set RECORDING at most once, and
\* only while the app is in COUNTDOWN: none sets it after the user has paused
\* or finished.
C31_OneBeginPerStart ==
  /\ recordingSets <= 1
  /\ stateAtSet # NULL => stateAtSet = APP_STATES.COUNTDOWN

\* C32: errorHistory never holds more than the limit, and it is the errors
\* handled last (since the history was last cleared), in the order in which
\* they were handled.
C32_HistoryBounded ==
  /\ Len(errorHistory) <= HISTORY_LIMIT
  /\ Len(errorHistory) = IF Len(handled) < HISTORY_LIMIT THEN Len(handled)
                         ELSE HISTORY_LIMIT
  /\ \A k \in 1..Len(errorHistory) :
       errorHistory[k] = handled[Len(handled) - Len(errorHistory) + k]

\* more errors were handled than the history keeps, not all of one kind
C32_Witness ==
  /\ Len(handled) > HISTORY_LIMIT
  /\ Len(errorHistory) = HISTORY_LIMIT
  /\ handled[1] # handled[Len(handled)]
  /\ errorHistory[1] # handled[1]

C34_OnlyFromSourceState ==
  [][/\ HandlePause /\ ~isRecording =>
          UNCHANGED <<hookVars, countdownVars, recorders>>
     /\ HandleResume /\ ~isPaused =>
          UNCHANGED <<hookVars, countdownVars, recorders>>]_vars

\* the recorder the session holds is in the given state
Holds(state) == mediaRecorder # 0 /\ recorders[mediaRecorder].state = state

\* C35: the flags agree with the recorder: while isRecording is true the
\* session holds a recorder that is recording, and while the session holds
\* a paused recorder isPaused is true, so that Done is offered.
C35_FlagsAgreeWithRecorder ==
  /\ isRecording => Holds("recording")
  /\ Holds("paused") => isPaused /\ BottomRow = "resumeDone"

\* C36: at most one elapsed-time ticker is live at any time, in either hook,
\* and one is live only while the session is Recording: the flags say
\* recording and not paused.
C36_OneTicker ==
  /\ tickers <= 1
  /\ EffectsFlushed => (tickers = 1 <=> isRecording /\ ~isPaused)
  /\ tickers = 1 /\ ~EffectsFlushed => timerDeps = <<TRUE, FALSE>>
  /\ hookTimers <= 1
  /\ hookTimers = 1 => hookRecording /\ ~hookPaused /\ timerRefLive

\* the app's ticker runs again after a pause and a resume
C36_Witness ==
  /\ tickers = 1 /\ EffectsFlushed /\ lastOp = "resumeComplete"
  /\ elapsedSeconds > 0

\* C37: the artifact handed to uploadRecording is the one of the latest
\* recording attempt: it was built by the recorder constructed last before
\* the submit, never by the recorder of an attempt that Start Over discarded.
C37_UploadsLatestArtifact ==
  lastUpload # NoUpload => lastUpload.blob.by = lastUpload.attempt

\* C38: when handleDone has run, for Done, the cap or Start Over, no stream
\* that getUserMedia ever granted to the session has a live track, streams
\* granted to overlapping requests included.
C38_EveryStreamReleased ==
  [][ClickDone \/ AutoTransition \/ StartOverYes =>
       \A s \in 1..Len(streams) : streams'[s].live = {}]_vars

\* C39: when the recorder of RecordingInterface stops, the duration given to
\* onRecordingDone is the recordingTime the interface shows at that moment.
C39_DurationIsElapsedTime ==
  interfaceOp = "stop" => doneDuration = recordingTime

====
